---- MODULE Spec2Model ----
(***************************************************************************)
(* Tiered AEO scoring engine of openanalytics (scoring.py).                *)
(*                                                                         *)
(* calculate_tiered_score is a pure function of a list of check results.   *)
(* The state machine draws an input list, applies the function, and then   *)
(* applies it again to a list in which one failing result was flipped to   *)
(* passed or two neighbouring results were exchanged.                      *)
(* A scored report is graded by calculate_grade and                        *)
(* calculate_visibility_band, which a caller also applies to a score of    *)
(* its own.                                                                *)
(*                                                                         *)
(* Messages are sequences of one-character strings so that lower(), the    *)
(* substring tests and the percentage regex are computed, not assumed.     *)
(* Python floats are IEEE-754 binary64; they are modelled exactly as       *)
(* fixed-point numbers held in limbs, every operation rounding its exact   *)
(* result to 53 significant bits, ties to even.                            *)
(***************************************************************************)
EXTENDS Integers, Sequences, FiniteSets, TLC

(***************************************************************************)
(* Text                                                                    *)
(***************************************************************************)
MsgNoOrg == <<"N", "o", " ", "O", "r", "g", "a", "n", "i", "z", "a", "t", "i", "o", "n", " ", "s", "c", "h", "e", "m", "a", " ", "f", "o", "u", "n", "d">>
MsgOrg85 == <<"O", "r", "g", "a", "n", "i", "z", "a", "t", "i", "o", "n", " ", "s", "c", "h", "e", "m", "a", " ", "c", "o", "m", "p", "l", "e", "t", "e", " ", "(", "8", "5", "%", ")">>
MsgOrg40 == <<"O", "r", "g", "a", "n", "i", "z", "a", "t", "i", "o", "n", " ", "s", "c", "h", "e", "m", "a", " ", "i", "n", "c", "o", "m", "p", "l", "e", "t", "e", " ", "(", "4", "0", "%", ")">>
MsgOrgNoPct == <<"O", "r", "g", "a", "n", "i", "z", "a", "t", "i", "o", "n", " ", "s", "c", "h", "e", "m", "a", " ", "p", "r", "e", "s", "e", "n", "t">>
MsgNoindex == <<"P", "a", "g", "e", " ", "h", "a", "s", " ", "N", "o", "I", "n", "d", "e", "x", " ", "d", "i", "r", "e", "c", "t", "i", "v", "e">>
MsgMissingTitle == <<"M", "i", "s", "s", "i", "n", "g", " ", "t", "i", "t", "l", "e", " ", "t", "a", "g">>
MsgMissingMeta == <<"M", "i", "s", "s", "i", "n", "g", " ", "m", "e", "t", "a", " ", "d", "e", "s", "c", "r", "i", "p", "t", "i", "o", "n">>
MsgOk == <<"O", "K">>
\* the message None, which is not a string
NoneMessage == <<"None">>
PatNoOrg == <<"n", "o", " ", "o", "r", "g", "a", "n", "i", "z", "a", "t", "i", "o", "n", " ", "s", "c", "h", "e", "m", "a">>
PatMissingTitle == <<"m", "i", "s", "s", "i", "n", "g", " ", "t", "i", "t", "l", "e">>
PatMissing == <<"m", "i", "s", "s", "i", "n", "g">>
PatNoindex == <<"n", "o", "i", "n", "d", "e", "x">>
DefaultPct == <<"0", "%">>
UpperChars == <<"A", "B", "C", "D", "E", "F", "G", "H", "I", "J", "K", "L", "M", "N", "O", "P", "Q", "R", "S", "T", "U", "V", "W", "X", "Y", "Z">>
LowerChars == <<"a", "b", "c", "d", "e", "f", "g", "h", "i", "j", "k", "l", "m", "n", "o", "p", "q", "r", "s", "t", "u", "v", "w", "x", "y", "z">>
DigitChars == <<"0", "1", "2", "3", "4", "5", "6", "7", "8", "9">>

\* the lower-case letter of every upper-case letter
LowerOf == [c \in {UpperChars[i] : i \in 1..Len(UpperChars)} |->
               LowerChars[CHOOSE i \in 1..Len(UpperChars) : UpperChars[i] = c]]

\* str.lower() on one character
LowerChar(c) == IF c \in DOMAIN LowerOf THEN LowerOf[c] ELSE c

\* str.lower()
Lower(s) == [i \in 1..Len(s) |-> LowerChar(s[i])]

\* pat in s
Contains(pat, s) ==
    \E i \in 0..(Len(s) - Len(pat)) :
        \A j \in 1..Len(pat) : s[i + j] = pat[j]

IsDigit(c) == \E d \in 1..Len(DigitChars) : DigitChars[d] = c

DigitValue(c) == (CHOOSE d \in 1..Len(DigitChars) : DigitChars[d] = c) - 1

\* the last index of the run of digits that starts at i
RECURSIVE RunEnd(_, _)
RunEnd(s, i) ==
    IF i < Len(s) /\ IsDigit(s[i + 1]) THEN RunEnd(s, i + 1) ELSE i

\* int() of the digits s[i..j]
RECURSIVE DigitsToInt(_, _, _)
DigitsToInt(s, i, j) ==
    IF j < i THEN 0 ELSE DigitsToInt(s, i, j - 1) * 10 + DigitValue(s[j])

\* the start positions at which (\d+)% matches
PctStarts(s) ==
    {i \in 1..Len(s) :
        /\ IsDigit(s[i])
        /\ RunEnd(s, i) < Len(s)
        /\ s[RunEnd(s, i) + 1] = "%"}

\* re.search(r'(\d+)%', s): -1 for no match, else int(match.group(1)) of
\* the leftmost match, the digits taken greedily
SearchPct(s) ==
    IF PctStarts(s) = {} THEN -1
    ELSE LET i == CHOOSE k \in PctStarts(s) : \A m \in PctStarts(s) : k <= m
         IN  DigitsToInt(s, i, RunEnd(s, i))

(***************************************************************************)
(* Python float arithmetic (IEEE-754 binary64, round to nearest even)      *)
(*                                                                         *)
(* A number is a little-endian sequence of NLimbs limbs of LimbBits bits;  *)
(* the top limb is the integer part, the limbs below it are FracBits       *)
(* fraction bits.  Every binary64 value the scoring code can produce from  *)
(* inputs within the bounds of this model is a multiple of 2^-FracBits and *)
(* so has an exact representation.                                         *)
(***************************************************************************)
LimbBits == 20
NLimbs == 5
Precision == 53
LimbBase == 2^LimbBits
FracBits == LimbBits * (NLimbs - 1)

Zero == [i \in 1..NLimbs |-> 0]

\* float(n) for a non-negative int n
FromInt(n) == [i \in 1..NLimbs |-> IF i = NLimbs THEN n ELSE 0]

\* the float literal 0.7 = 0x1.6666666666666p-1
Float07 == <<0, 209664, 209715, 734003, 0>>

\* the float literal 0.3 = 0x1.3333333333333p-2
Float03 == <<0, 838848, 838860, 314572, 0>>

\* exact a * k for a small non-negative int k
RECURSIVE MulLimbs(_, _, _, _)
MulLimbs(a, k, i, carry) ==
    LET p == a[i] * k + carry
    IN  IF i = NLimbs THEN <<p>>
        ELSE <<p % LimbBase>> \o MulLimbs(a, k, i + 1, p \div LimbBase)

MulExact(a, k) == MulLimbs(a, k, 1, 0)

\* exact a + b
RECURSIVE AddLimbs(_, _, _, _)
AddLimbs(a, b, i, carry) ==
    LET s == a[i] + b[i] + carry
    IN  IF i = NLimbs THEN <<s>>
        ELSE <<s % LimbBase>> \o AddLimbs(a, b, i + 1, s \div LimbBase)

AddExact(a, b) == AddLimbs(a, b, 1, 0)

\* a / k truncated to FracBits fraction bits, for a small positive int k:
\* <<quotient, remainder>>, computed from the top limb down
RECURSIVE DivLimbs(_, _, _, _)
DivLimbs(a, k, i, rem) ==
    IF i = 0 THEN <<<<>>, rem>>
    ELSE LET cur  == rem * LimbBase + a[i]
             rest == DivLimbs(a, k, i - 1, cur % k)
         IN  <<rest[1] \o <<cur \div k>>, rest[2]>>

DivTrunc(a, k) == DivLimbs(a, k, NLimbs, 0)

\* a < b
Less(a, b) ==
    \E i \in 1..NLimbs :
        /\ a[i] < b[i]
        /\ \A j \in (i + 1)..NLimbs : a[j] = b[j]

Leq(a, b) == a = b \/ Less(a, b)

\* number of bits of a non-negative int below 2^30
BitLength(x) == CHOOSE n \in 0..30 : x < 2^n /\ (n = 0 \/ x >= 2^(n - 1))

\* index of the most significant set bit of a non-zero number
MsbPos(a) ==
    LET top == CHOOSE i \in 1..NLimbs :
                   a[i] # 0 /\ \A j \in (i + 1)..NLimbs : a[j] = 0
    IN  (top - 1) * LimbBits + BitLength(a[top]) - 1

Bit(a, n) == (a[(n \div LimbBits) + 1] \div 2^(n % LimbBits)) % 2

\* a with the bits below bit n cleared
ClearBelow(a, n) ==
    [i \in 1..NLimbs |->
        IF i * LimbBits <= n THEN 0
        ELSE IF (i - 1) * LimbBits >= n THEN a[i]
        ELSE a[i] - (a[i] % 2^(n - (i - 1) * LimbBits))]

Pow2(n) == [i \in 1..NLimbs |-> IF i = (n \div LimbBits) + 1 THEN 2^(n % LimbBits) ELSE 0]

\* round an exact result to the nearest binary64, ties to even; sticky says
\* that the exact result has non-zero bits below the ones held in a
RoundToDouble(a, sticky) ==
    IF a = Zero THEN a
    ELSE LET drop == MsbPos(a) - (Precision - 1)
         IN  IF drop <= 0 THEN a
             ELSE LET kept  == ClearBelow(a, drop)
                      guard == Bit(a, drop - 1) = 1
                      below == sticky \/ ClearBelow(a, drop - 1) # a
                      odd   == Bit(a, drop) = 1
                  IN  IF guard /\ (below \/ odd)
                      THEN AddExact(kept, Pow2(drop))
                      ELSE kept

\* a * k for a float a and an int k
FloatMulInt(a, k) == RoundToDouble(MulExact(a, k), FALSE)

\* a + b
FloatAdd(a, b) == RoundToDouble(AddExact(a, b), FALSE)

\* a / k for an int k > 0
FloatDivInt(a, k) ==
    LET qr == DivTrunc(a, k) IN RoundToDouble(qr[1], qr[2] # 0)

\* round(a, 1), as a count of tenths: the nearest tenth to the exact value
\* of a, an exact tie going to the even tenth
RoundTenths(a) ==
    LET t    == MulExact(a, 10)
        n    == t[NLimbs]
        frac == [t EXCEPT ![NLimbs] = 0]
        half == Pow2(FracBits - 1)
    IN  IF Less(half, frac) THEN n + 1
        ELSE IF frac = half THEN n + (n % 2)
        ELSE n

(***************************************************************************)
(* scoring.py                                                              *)
(***************************************************************************)

\* dict.get(key, default)
Get(issue, key, default) == IF key \in DOMAIN issue THEN issue[key] ELSE default

\* ', '.join(parts)
RECURSIVE Join(_)
Join(parts) ==
    IF Len(parts) = 0 THEN ""
    ELSE IF Len(parts) = 1 THEN parts[1]
    ELSE parts[1] \o ", " \o Join(Tail(parts))

ai_crawler_checks == {"gptbot_access", "claude_access", "perplexitybot_access", "ccbot_access"}

\* the crawler checks of the results that are not passed, one entry per result
blocked_crawlers(issues) ==
    SelectSeq(issues, LAMBDA issue :
        Get(issue, "check", "None") \in ai_crawler_checks /\ ~Get(issue, "passed", FALSE))

has_noindex(issues) ==
    \E n \in 1..Len(issues) :
        /\ Get(issues[n], "check", "None") = "robots_meta"
        /\ Contains(PatNoindex, Lower(Get(issues[n], "message", <<>>)))
        /\ ~Get(issues[n], "passed", FALSE)

\* evaluate_tier0_critical with the all-blocked test written len(...) > 4
evaluate_tier0_critical_gt(issues) ==
    LET blocked == blocked_crawlers(issues)
    IN
    IF Len(blocked) > 4
    THEN [passed |-> FALSE, cap |-> 10, reason |-> "Blocks all AI crawlers - invisible to AI"]
    ELSE IF Len(blocked) >= 3
    THEN [passed |-> FALSE, cap |-> 25,
          reason |-> "Blocks most AI crawlers (" \o ToString(Len(blocked)) \o "/4)"]
    ELSE IF has_noindex(issues)
    THEN [passed |-> FALSE, cap |-> 5, reason |-> "Has noindex - won't be indexed by AI"]
    ELSE [passed |-> TRUE, cap |-> 100, reason |-> "AI can access site"]

\* evaluate_tier0_critical with the noindex test moved before the crawler tests
evaluate_tier0_critical_noindex_first(issues) ==
    LET blocked == blocked_crawlers(issues)
    IN
    IF has_noindex(issues)
    THEN [passed |-> FALSE, cap |-> 5, reason |-> "Has noindex - won't be indexed by AI"]
    ELSE IF Len(blocked) >= 4
    THEN [passed |-> FALSE, cap |-> 10, reason |-> "Blocks all AI crawlers - invisible to AI"]
    ELSE IF Len(blocked) >= 3
    THEN [passed |-> FALSE, cap |-> 25,
          reason |-> "Blocks most AI crawlers (" \o ToString(Len(blocked)) \o "/4)"]
    ELSE [passed |-> TRUE, cap |-> 100, reason |-> "AI can access site"]

evaluate_tier0_critical(issues) ==
    LET blocked == blocked_crawlers(issues)
    IN
    IF Len(blocked) >= 4
    THEN [passed |-> FALSE, cap |-> 10, reason |-> "Blocks all AI crawlers - invisible to AI"]
    ELSE IF Len(blocked) >= 3
    THEN [passed |-> FALSE, cap |-> 25,
          reason |-> "Blocks most AI crawlers (" \o ToString(Len(blocked)) \o "/4)"]
    ELSE IF has_noindex(issues)
    THEN [passed |-> FALSE, cap |-> 5, reason |-> "Has noindex - won't be indexed by AI"]
    ELSE [passed |-> TRUE, cap |-> 100, reason |-> "AI can access site"]

\* has_org_schema starting from True and cleared by a "no organization schema" message
has_org_schema_unless(issues) ==
    \A n \in 1..Len(issues) :
        Get(issues[n], "check", "") = "org_schema_completeness"
            => ~Contains(PatNoOrg, Lower(Get(issues[n], "message", <<>>)))

has_org_schema(issues) ==
    \E n \in 1..Len(issues) :
        /\ Get(issues[n], "check", "") = "org_schema_completeness"
        /\ ~Contains(PatNoOrg, Lower(Get(issues[n], "message", <<>>)))

\* has_title read as "true unless a title_tag result says so"
has_title_unless(issues) ==
    \A n \in 1..Len(issues) :
        Get(issues[n], "check", "") = "title_tag"
            => ~Contains(PatMissingTitle, Lower(Get(issues[n], "message", <<>>)))

has_title(issues) ==
    \E n \in 1..Len(issues) :
        /\ Get(issues[n], "check", "") = "title_tag"
        /\ ~Contains(PatMissingTitle, Lower(Get(issues[n], "message", <<>>)))

has_https(issues) ==
    \E n \in 1..Len(issues) :
        /\ Get(issues[n], "check", "") = "https"
        /\ Get(issues[n], "passed", FALSE)

missing_essentials(issues) ==
    (IF has_org_schema(issues) THEN <<>> ELSE <<"Organization schema">>)
    \o (IF has_title(issues) THEN <<>> ELSE <<"title tag">>)
    \o (IF has_https(issues) THEN <<>> ELSE <<"HTTPS">>)

evaluate_tier1_essential(issues) ==
    LET missing == missing_essentials(issues)
    IN
    IF ~has_org_schema(issues)
    THEN [passed |-> FALSE, cap |-> 45,
          reason |-> "Missing Organization schema - AI can't identify entity"]
    ELSE IF Len(missing) > 0
    THEN [passed |-> FALSE, cap |-> 55,
          reason |-> "Missing essentials: " \o Join(missing)]
    ELSE [passed |-> TRUE, cap |-> 100, reason |-> "Has essential elements"]

\* the Organization schema exists
org_partial(issues) ==
    \E n \in 1..Len(issues) :
        /\ Get(issues[n], "check", "") = "org_schema_completeness"
        /\ ~Contains(PatNoOrg, Lower(Get(issues[n], "message", <<>>)))

\* completeness with the pattern (\d)%, which reads a single digit
completeness_one_digit(message) ==
    LET s == IF message = <<>> THEN DefaultPct ELSE message
        starts == {i \in 1..(Len(s) - 1) : IsDigit(s[i]) /\ s[i + 1] = "%"}
    IN  IF starts = {} THEN -1
        ELSE DigitValue(s[CHOOSE i \in starts : \A k \in starts : i <= k])

\* re.search(r'(\d+)%', message or '0%')
completeness(message) == SearchPct(IF message = <<>> THEN DefaultPct ELSE message)

\* org_complete with a message without a percentage counted as complete
org_complete_unless_low(issues) ==
    \E n \in 1..Len(issues) :
        /\ Get(issues[n], "check", "") = "org_schema_completeness"
        /\ ~Contains(PatNoOrg, Lower(Get(issues[n], "message", <<>>)))
        /\ completeness(Get(issues[n], "message", <<>>)) \notin 0..69

org_complete(issues) ==
    \E n \in 1..Len(issues) :
        /\ Get(issues[n], "check", "") = "org_schema_completeness"
        /\ ~Contains(PatNoOrg, Lower(Get(issues[n], "message", <<>>)))
        /\ completeness(Get(issues[n], "message", <<>>)) >= 70

has_meta_desc(issues) ==
    \E n \in 1..Len(issues) :
        /\ Get(issues[n], "check", "") = "meta_description"
        /\ ~Contains(PatMissing, Lower(Get(issues[n], "message", <<>>)))

good_content(issues) ==
    \E n \in 1..Len(issues) :
        /\ Get(issues[n], "check", "") = "content_word_count"
        /\ Get(issues[n], "passed", FALSE)

has_sameas(issues) ==
    \E n \in 1..Len(issues) :
        /\ Get(issues[n], "check", "") = "sameas_links"
        /\ Get(issues[n], "passed", FALSE)

\* critical_issues holding the incomplete Organization schema
critical_issues_org(issues) ==
    IF org_partial(issues) /\ ~org_complete(issues)
    THEN <<"incomplete Organization schema">> ELSE <<>>

critical_issues(issues) == <<>>

important_issues(issues) ==
    (IF org_partial(issues) /\ ~org_complete(issues)
     THEN <<"incomplete Organization schema">> ELSE <<>>)
    \o (IF has_sameas(issues) THEN <<>> ELSE <<"no sameAs links">>)

minor_issues(issues) ==
    (IF has_meta_desc(issues) THEN <<>> ELSE <<"no meta description">>)
    \o (IF good_content(issues) THEN <<>> ELSE <<"thin content">>)

evaluate_tier2_important(issues) ==
    LET critical  == critical_issues(issues)
        important == important_issues(issues)
        minor     == minor_issues(issues)
    IN
    IF Len(critical) > 0
    THEN [passed |-> FALSE, cap |-> 70,
          reason |-> "Critical: " \o Join(critical)]
    ELSE IF Len(important) >= 2
    THEN [passed |-> FALSE, cap |-> 75,
          reason |-> "Issues: " \o Join(important)]
    ELSE IF Len(important) = 1
    THEN [passed |-> FALSE, cap |-> 85,
          reason |-> "Issue: " \o important[1]]
    ELSE IF Len(minor) >= 2
    THEN [passed |-> FALSE, cap |-> 90,
          reason |-> "Minor issues: " \o Join(minor)]
    ELSE IF Len(minor) = 1
    THEN [passed |-> FALSE, cap |-> 95,
          reason |-> "Minor: " \o minor[1]]
    ELSE [passed |-> TRUE, cap |-> 100, reason |-> "Excellent AEO optimization"]

\* total_impact with the addition moved under "if passed"
RECURSIVE total_impact_passed_only(_, _)
total_impact_passed_only(issues, n) ==
    IF n = 0 THEN 0
    ELSE total_impact_passed_only(issues, n - 1)
         + (IF Get(issues[n], "passed", FALSE) THEN Get(issues[n], "score_impact", 5) ELSE 0)

\* total_impact after the first n results
RECURSIVE total_impact(_, _)
total_impact(issues, n) ==
    IF n = 0 THEN 0
    ELSE total_impact(issues, n - 1) + Get(issues[n], "score_impact", 5)

\* credit with the factors of 'notice' and 'warning' exchanged
credit_swapped(issue) ==
    LET impact == Get(issue, "score_impact", 5)
    IN  IF Get(issue, "passed", FALSE) THEN FromInt(impact)
        ELSE IF Get(issue, "severity", "None") = "notice" THEN FloatMulInt(Float03, impact)
        ELSE IF Get(issue, "severity", "None") = "warning" THEN FloatMulInt(Float07, impact)
        ELSE Zero

\* what one result adds to earned_impact
credit(issue) ==
    LET impact == Get(issue, "score_impact", 5)
    IN  IF Get(issue, "passed", FALSE) THEN FromInt(impact)
        ELSE IF Get(issue, "severity", "None") = "notice" THEN FloatMulInt(Float07, impact)
        ELSE IF Get(issue, "severity", "None") = "warning" THEN FloatMulInt(Float03, impact)
        ELSE Zero

\* earned_impact after the first n results, accumulated in list order; the
\* sum starts from the int 0, and 0 + x is x
RECURSIVE earned_impact(_, _)
earned_impact(issues, n) ==
    IF n = 0 THEN Zero
    ELSE LET earned == earned_impact(issues, n - 1)
         IN  IF earned = Zero THEN credit(issues[n])
             ELSE FloatAdd(earned, credit(issues[n]))

\* calculate_base_score returning 100.0 when there is nothing to weigh
calculate_base_score_vacuous(issues) ==
    IF total_impact(issues, Len(issues)) > 0
    THEN FloatMulInt(FloatDivInt(earned_impact(issues, Len(issues)),
                                 total_impact(issues, Len(issues))), 100)
    ELSE FromInt(100)

calculate_base_score(issues) ==
    IF total_impact(issues, Len(issues)) > 0
    THEN FloatMulInt(FloatDivInt(earned_impact(issues, Len(issues)),
                                 total_impact(issues, Len(issues))), 100)
    ELSE Zero

\* min(a, b)
Min2(a, b) == IF Less(b, a) THEN b ELSE a

\* issue.get('message', '').lower() is evaluated for every result by
\* evaluate_tier1_essential; it raises when the message is None
lower_raises(issues) ==
    \E n \in 1..Len(issues) : Get(issues[n], "message", <<>>) = NoneMessage

\* the exception that then leaves calculate_tiered_score
AttributeError == [raised |-> "AttributeError"]

\* calculate_tiered_score with tier2_cap left out of the min
calculate_tiered_score_no_tier2(issues) ==
    IF lower_raises(issues) THEN AttributeError ELSE
    LET tier0       == evaluate_tier0_critical(issues)
        tier1       == evaluate_tier1_essential(issues)
        tier2       == evaluate_tier2_important(issues)
        base_score  == calculate_base_score(issues)
        final_score == Min2(Min2(FromInt(tier0.cap), FromInt(tier1.cap)), base_score)
        slack       == FloatAdd(final_score, FromInt(1))
        limiting    == IF Leq(FromInt(tier0.cap), slack) THEN <<"tier0", tier0.reason>>
                       ELSE IF Leq(FromInt(tier1.cap), slack) THEN <<"tier1", tier1.reason>>
                       ELSE IF Leq(FromInt(tier2.cap), slack) THEN <<"tier2", tier2.reason>>
                       ELSE <<"base", "Check performance">>
    IN  [score |-> RoundTenths(final_score),
         tier_details |-> [tier0 |-> tier0, tier1 |-> tier1, tier2 |-> tier2,
                           base_score |-> RoundTenths(base_score),
                           limiting_tier |-> limiting[1],
                           limiting_reason |-> limiting[2]]]

\* calculate_tiered_score comparing the caps with the rounded score plus 1
calculate_tiered_score_rounded(issues) ==
    IF lower_raises(issues) THEN AttributeError ELSE
    LET tier0       == evaluate_tier0_critical(issues)
        tier1       == evaluate_tier1_essential(issues)
        tier2       == evaluate_tier2_important(issues)
        base_score  == calculate_base_score(issues)
        final_score == Min2(Min2(Min2(FromInt(tier0.cap), FromInt(tier1.cap)),
                                 FromInt(tier2.cap)), base_score)
        slack       == RoundTenths(final_score) + 10
        limiting    == IF 10 * tier0.cap <= slack THEN <<"tier0", tier0.reason>>
                       ELSE IF 10 * tier1.cap <= slack THEN <<"tier1", tier1.reason>>
                       ELSE IF 10 * tier2.cap <= slack THEN <<"tier2", tier2.reason>>
                       ELSE <<"base", "Check performance">>
    IN  [score |-> RoundTenths(final_score),
         tier_details |-> [tier0 |-> tier0, tier1 |-> tier1, tier2 |-> tier2,
                           base_score |-> RoundTenths(base_score),
                           limiting_tier |-> limiting[1],
                           limiting_reason |-> limiting[2]]]

\* calculate_tiered_score with the tolerance on the wrong side: cap + 1 <= final_score
calculate_tiered_score_below(issues) ==
    IF lower_raises(issues) THEN AttributeError ELSE
    LET tier0       == evaluate_tier0_critical(issues)
        tier1       == evaluate_tier1_essential(issues)
        tier2       == evaluate_tier2_important(issues)
        base_score  == calculate_base_score(issues)
        final_score == Min2(Min2(Min2(FromInt(tier0.cap), FromInt(tier1.cap)),
                                 FromInt(tier2.cap)), base_score)
        limiting    == IF Leq(FromInt(tier0.cap + 1), final_score) THEN <<"tier0", tier0.reason>>
                       ELSE IF Leq(FromInt(tier1.cap + 1), final_score) THEN <<"tier1", tier1.reason>>
                       ELSE IF Leq(FromInt(tier2.cap + 1), final_score) THEN <<"tier2", tier2.reason>>
                       ELSE <<"base", "Check performance">>
    IN  [score |-> RoundTenths(final_score),
         tier_details |-> [tier0 |-> tier0, tier1 |-> tier1, tier2 |-> tier2,
                           base_score |-> RoundTenths(base_score),
                           limiting_tier |-> limiting[1],
                           limiting_reason |-> limiting[2]]]

calculate_tiered_score(issues) ==
    IF lower_raises(issues) THEN AttributeError ELSE
    LET tier0       == evaluate_tier0_critical(issues)
        tier1       == evaluate_tier1_essential(issues)
        tier2       == evaluate_tier2_important(issues)
        base_score  == calculate_base_score(issues)
        final_score == Min2(Min2(Min2(FromInt(tier0.cap), FromInt(tier1.cap)),
                                 FromInt(tier2.cap)), base_score)
        slack       == FloatAdd(final_score, FromInt(1))
        limiting    == IF Leq(FromInt(tier0.cap), slack) THEN <<"tier0", tier0.reason>>
                       ELSE IF Leq(FromInt(tier1.cap), slack) THEN <<"tier1", tier1.reason>>
                       ELSE IF Leq(FromInt(tier2.cap), slack) THEN <<"tier2", tier2.reason>>
                       ELSE <<"base", "Check performance">>
    IN  [score |-> RoundTenths(final_score),
         tier_details |-> [tier0 |-> tier0, tier1 |-> tier1, tier2 |-> tier2,
                           base_score |-> RoundTenths(base_score),
                           limiting_tier |-> limiting[1],
                           limiting_reason |-> limiting[2]]]

\* calculate_overall_score: the score of calculate_tiered_score
calculate_overall_score(issues) == calculate_tiered_score(issues).score

\* calculate_grade with every boundary value in the lower grade
calculate_grade_strict(score) ==
    IF score > 10 * 90 THEN "A+"
    ELSE IF score > 10 * 80 THEN "A"
    ELSE IF score > 10 * 65 THEN "B"
    ELSE IF score > 10 * 45 THEN "C"
    ELSE IF score > 10 * 25 THEN "D"
    ELSE "F"

\* calculate_grade, the score in tenths
calculate_grade(score) ==
    IF score >= 10 * 90 THEN "A+"
    ELSE IF score >= 10 * 80 THEN "A"
    ELSE IF score >= 10 * 65 THEN "B"
    ELSE IF score >= 10 * 45 THEN "C"
    ELSE IF score >= 10 * 25 THEN "D"
    ELSE "F"

\* calculate_visibility_band, the score in tenths: <<band_name, hex_color>>
calculate_visibility_band(score) ==
    IF score >= 10 * 80 THEN <<"Excellent", "#22c55e">>
    ELSE IF score >= 10 * 65 THEN <<"Strong", "#84cc16">>
    ELSE IF score >= 10 * 45 THEN <<"Moderate", "#eab308">>
    ELSE IF score >= 10 * 25 THEN <<"Weak", "#f97316">>
    ELSE <<"Critical", "#ef4444">>

(***************************************************************************)
(* Inputs                                                                  *)
(*                                                                         *)
(* The check results are the ones the check functions emit (checks/*.py):  *)
(* their identifiers, severities, messages and score impacts.              *)
(***************************************************************************)
CheckResult(check, passed, severity, message, score_impact) ==
    [check |-> check, passed |-> passed, severity |-> severity,
     message |-> message, score_impact |-> score_impact]

\* a report in which every check passes
SitePassing ==
    << CheckResult("gptbot_access", TRUE, "pass", MsgOk, 8),
       CheckResult("claude_access", TRUE, "pass", MsgOk, 5),
       CheckResult("perplexitybot_access", TRUE, "pass", MsgOk, 5),
       CheckResult("ccbot_access", TRUE, "pass", MsgOk, 4),
       CheckResult("robots_meta", TRUE, "pass", MsgOk, 15),
       CheckResult("https", TRUE, "pass", MsgOk, 10),
       CheckResult("title_tag", TRUE, "pass", MsgOk, 10),
       CheckResult("meta_description", TRUE, "pass", MsgOk, 10),
       CheckResult("content_word_count", TRUE, "pass", MsgOk, 10),
       CheckResult("sameas_links", TRUE, "pass", MsgOk, 5),
       CheckResult("org_schema_completeness", TRUE, "pass", MsgOrg85, 10) >>

\* the same report for a site whose robots.txt blocks three of the crawlers
SiteBlocked ==
    [SitePassing EXCEPT
        ![1] = CheckResult("gptbot_access", FALSE, "error", MsgOk, 8),
        ![2] = CheckResult("claude_access", FALSE, "warning", MsgOk, 5),
        ![3] = CheckResult("perplexitybot_access", FALSE, "warning", MsgOk, 5)]

\* the same report for a site whose robots.txt blocks GPTBot only
SiteGptBlocked ==
    [SitePassing EXCEPT
        ![1] = CheckResult("gptbot_access", FALSE, "error", MsgOk, 8)]

Profiles == {<<>>, SitePassing, SiteBlocked, SiteGptBlocked}

\* the results that replace or extend those of a profile
Catalog ==
    << CheckResult("gptbot_access", FALSE, "error", MsgOk, 8),
       CheckResult("ccbot_access", FALSE, "notice", MsgOk, 4),
       CheckResult("robots_meta", FALSE, "error", MsgNoindex, 15),
       CheckResult("org_schema_completeness", FALSE, "warning", MsgNoOrg, 10),
       CheckResult("org_schema_completeness", FALSE, "warning", MsgOrg40, 10),
       CheckResult("org_schema_completeness", TRUE, "pass", MsgOrg85, 10),
       CheckResult("org_schema_completeness", TRUE, "pass", MsgOrgNoPct, 10),
       CheckResult("title_tag", FALSE, "error", MsgMissingTitle, 10),
       CheckResult("https", FALSE, "error", MsgOk, 10),
       CheckResult("https", TRUE, "pass", MsgOk, 10),
       CheckResult("meta_description", FALSE, "error", MsgMissingMeta, 10),
       CheckResult("content_word_count", FALSE, "notice", MsgOk, 10),
       CheckResult("sameas_links", FALSE, "warning", MsgOk, 5),
       CheckResult("other", TRUE, "pass", MsgOk, 6),
       CheckResult("other", FALSE, "warning", MsgOk, 6),
       CheckResult("other", TRUE, "pass", NoneMessage, 6),
       [check |-> "other"] >>

\* at most MaxExtra results of the catalog are put into a profile
MaxExtra == 2

\* the choices of extra results, as non-decreasing sequences of catalog indices
ExtraChoices ==
    {e \in UNION {[1..n -> 1..Len(Catalog)] : n \in 0..MaxExtra} :
        \A i \in 1..(Len(e) - 1) : e[i] <= e[i + 1]}

\* the profile with the extra results: they replace the profile's results for
\* the same checks and are otherwise appended
Merge(profile, extra) ==
    SelectSeq(profile, LAMBDA r : \A i \in 1..Len(extra) : extra[i].check # r.check)
    \o extra

Inputs ==
    {Merge(p, [i \in 1..Len(e) |-> Catalog[e[i]]]) : p \in Profiles, e \in ExtraChoices}

(***************************************************************************)
(* checks/aeo_crawler.py: robots.txt and the four AI crawler checks         *)
(*                                                                         *)
(* A text is the sequence of its lines (str.split on the newline), a line  *)
(* a sequence of characters.  The empty string is one empty line; None,    *)
(* which has no lines, is the empty sequence.                              *)
(***************************************************************************)
PrefixUserAgent == <<"u", "s", "e", "r", "-", "a", "g", "e", "n", "t", ":">>
PrefixDisallow == <<"d", "i", "s", "a", "l", "l", "o", "w", ":">>
PrefixAllow == <<"a", "l", "l", "o", "w", ":">>
PathRoot == <<"/">>
PathRootStar == <<"/", "*">>
Wildcard == <<"*">>
Gptbot == <<"g", "p", "t", "b", "o", "t">>
Claudebot == <<"c", "l", "a", "u", "d", "e", "b", "o", "t">>
ClaudeWeb == <<"c", "l", "a", "u", "d", "e", "-", "w", "e", "b">>
AnthropicAi == <<"a", "n", "t", "h", "r", "o", "p", "i", "c", "-", "a", "i">>
Perplexitybot == <<"p", "e", "r", "p", "l", "e", "x", "i", "t", "y", "b", "o", "t">>
Ccbot == <<"c", "c", "b", "o", "t">>
MsgGptbotBlocked == <<"G", "P", "T", "B", "o", "t", " ", "i", "s", " ", "b", "l", "o", "c", "k", "e", "d", " ", "i", "n", " ", "r", "o", "b", "o", "t", "s", ".", "t", "x", "t">>
MsgGptbotAllowed == <<"G", "P", "T", "B", "o", "t", " ", "(", "O", "p", "e", "n", "A", "I", ")", " ", "i", "s", " ", "a", "l", "l", "o", "w", "e", "d">>
MsgClaudeBlocked == <<"C", "l", "a", "u", "d", "e", "-", "W", "e", "b", "/", "A", "n", "t", "h", "r", "o", "p", "i", "c", " ", "c", "r", "a", "w", "l", "e", "r", " ", "i", "s", " ", "b", "l", "o", "c", "k", "e", "d">>
MsgClaudeAllowed == <<"C", "l", "a", "u", "d", "e", "-", "W", "e", "b", " ", "(", "A", "n", "t", "h", "r", "o", "p", "i", "c", ")", " ", "i", "s", " ", "a", "l", "l", "o", "w", "e", "d">>
MsgPerplexityBlocked == <<"P", "e", "r", "p", "l", "e", "x", "i", "t", "y", "B", "o", "t", " ", "i", "s", " ", "b", "l", "o", "c", "k", "e", "d", " ", "i", "n", " ", "r", "o", "b", "o", "t", "s", ".", "t", "x", "t">>
MsgPerplexityAllowed == <<"P", "e", "r", "p", "l", "e", "x", "i", "t", "y", "B", "o", "t", " ", "i", "s", " ", "a", "l", "l", "o", "w", "e", "d">>
MsgCcbotBlocked == <<"C", "C", "B", "o", "t", " ", "(", "C", "o", "m", "m", "o", "n", " ", "C", "r", "a", "w", "l", ")", " ", "i", "s", " ", "b", "l", "o", "c", "k", "e", "d">>
MsgCcbotAllowed == <<"C", "C", "B", "o", "t", " ", "(", "C", "o", "m", "m", "o", "n", " ", "C", "r", "a", "w", "l", ")", " ", "i", "s", " ", "a", "l", "l", "o", "w", "e", "d">>

None == <<>>

EmptyText == << <<>> >>

IsSpace(c) == c \in {" ", "\t", "\r"}

\* str.strip()
RECURSIVE LStrip(_)
LStrip(s) == IF s # <<>> /\ IsSpace(Head(s)) THEN LStrip(Tail(s)) ELSE s

RECURSIVE RStrip(_)
RStrip(s) ==
    IF s # <<>> /\ IsSpace(s[Len(s)]) THEN RStrip(SubSeq(s, 1, Len(s) - 1)) ELSE s

Strip(s) == RStrip(LStrip(s))

\* s.startswith(prefix)
StartsWith(prefix, s) ==
    /\ Len(prefix) <= Len(s)
    /\ \A i \in 1..Len(prefix) : s[i] = prefix[i]

\* s.split(':', 1)[1] of a string that holds a colon
AfterColon(s) ==
    LET i == CHOOSE k \in 1..Len(s) : s[k] = ":" /\ \A m \in 1..(k - 1) : s[m] # ":"
    IN  SubSeq(s, i + 1, Len(s))

\* rules: a function from user-agents to their rule
NoRules == [agent \in {} |-> FALSE]

NewRule == [disallow_all |-> FALSE, allow_all |-> TRUE]

\* if agent not in rules: rules[agent] = {'disallow_all': False, 'allow_all': True}
WithAgent(rules, agent) ==
    IF agent \in DOMAIN rules THEN rules
    ELSE [a \in DOMAIN rules \cup {agent} |-> IF a = agent THEN NewRule ELSE rules[a]]

\* the Disallow branch, for agent in current_agents
RECURSIVE Disallow(_, _, _)
Disallow(rules, agents, path) ==
    IF agents = <<>> THEN rules
    ELSE LET agent == Head(agents)
             known == WithAgent(rules, agent)
             after == IF path = PathRoot \/ path = PathRootStar
                          THEN [known EXCEPT ![agent] =
                                    [disallow_all |-> TRUE, allow_all |-> FALSE]]
                      ELSE IF path # <<>>
                          THEN [known EXCEPT ![agent].allow_all = FALSE]
                      ELSE known
         IN  Disallow(after, Tail(agents), path)

\* the Allow branch, for agent in current_agents
RECURSIVE Allow(_, _, _)
Allow(rules, agents, path) ==
    IF agents = <<>> THEN rules
    ELSE LET agent == Head(agents)
             known == WithAgent(rules, agent)
             after == IF path = PathRoot \/ path = PathRootStar
                          THEN [known EXCEPT ![agent] =
                                    [disallow_all |-> FALSE, allow_all |-> TRUE]]
                      ELSE known
         IN  Allow(after, Tail(agents), path)

\* one pass of the loop over the lines: parsed holds rules and current_agents
ParseLine(parsed, raw) ==
    LET line == Strip(raw)
    IN  IF line = <<>> \/ Head(line) = "#" THEN parsed
        ELSE IF StartsWith(PrefixUserAgent, Lower(line))
            THEN LET agent == Lower(Strip(AfterColon(line)))
                 IN  [rules |-> WithAgent(parsed.rules, agent),
                      current_agents |-> <<agent>>]
        ELSE IF StartsWith(PrefixDisallow, Lower(line)) /\ parsed.current_agents # <<>>
            THEN [parsed EXCEPT !.rules =
                      Disallow(@, parsed.current_agents, Strip(AfterColon(line)))]
        ELSE IF StartsWith(PrefixAllow, Lower(line)) /\ parsed.current_agents # <<>>
            THEN [parsed EXCEPT !.rules =
                      Allow(@, parsed.current_agents, Strip(AfterColon(line)))]
        ELSE parsed

RECURSIVE ParseLines(_, _)
ParseLines(parsed, lines) ==
    IF lines = <<>> THEN parsed
    ELSE ParseLines(ParseLine(parsed, Head(lines)), Tail(lines))

parse_robots_txt(text) ==
    IF text = None \/ text = EmptyText THEN NoRules
    ELSE ParseLines([rules |-> NoRules, current_agents |-> <<>>], text).rules

\* is_crawler_allowed with the wildcard rule looked up first
is_crawler_allowed_wildcard_first(rules, crawler_name) ==
    IF Wildcard \in DOMAIN rules THEN ~rules[Wildcard].disallow_all
    ELSE IF crawler_name \in DOMAIN rules THEN ~rules[crawler_name].disallow_all
    ELSE TRUE

is_crawler_allowed(rules, crawler_name) ==
    IF crawler_name \in DOMAIN rules THEN ~rules[crawler_name].disallow_all
    ELSE IF Wildcard \in DOMAIN rules THEN ~rules[Wildcard].disallow_all
    ELSE TRUE

run_aeo_crawler_checks(text) ==
    LET rules              == parse_robots_txt(text)
        gptbot_allowed     == is_crawler_allowed(rules, Gptbot)
        claude_allowed     == /\ is_crawler_allowed(rules, Claudebot)
                              /\ is_crawler_allowed(rules, ClaudeWeb)
                              /\ is_crawler_allowed(rules, AnthropicAi)
        perplexity_allowed == is_crawler_allowed(rules, Perplexitybot)
        ccbot_allowed      == is_crawler_allowed(rules, Ccbot)
    IN  << IF ~gptbot_allowed
               THEN CheckResult("gptbot_access", FALSE, "error", MsgGptbotBlocked, 8)
               ELSE CheckResult("gptbot_access", TRUE, "pass", MsgGptbotAllowed, 8),
           IF ~claude_allowed
               THEN CheckResult("claude_access", FALSE, "warning", MsgClaudeBlocked, 5)
               ELSE CheckResult("claude_access", TRUE, "pass", MsgClaudeAllowed, 5),
           IF ~perplexity_allowed
               THEN CheckResult("perplexitybot_access", FALSE, "warning", MsgPerplexityBlocked, 5)
               ELSE CheckResult("perplexitybot_access", TRUE, "pass", MsgPerplexityAllowed, 5),
           IF ~ccbot_allowed
               THEN CheckResult("ccbot_access", FALSE, "notice", MsgCcbotBlocked, 4)
               ELSE CheckResult("ccbot_access", TRUE, "pass", MsgCcbotAllowed, 4) >>

\* the lines of which the robots.txt files are made

LineAgentAll == <<"U", "s", "e", "r", "-", "a", "g", "e", "n", "t", ":", " ", "*">>
LineAgentGptbot == <<"U", "s", "e", "r", "-", "a", "g", "e", "n", "t", ":", " ", "G", "P", "T", "B", "o", "t">>
LineAgentCcbot == <<"u", "s", "e", "r", "-", "a", "g", "e", "n", "t", ":", " ", "C", "C", "B", "o", "t">>
LineAgentAnthropic == <<"U", "s", "e", "r", "-", "a", "g", "e", "n", "t", ":", " ", "a", "n", "t", "h", "r", "o", "p", "i", "c", "-", "a", "i">>
LineDisallowAll == <<"D", "i", "s", "a", "l", "l", "o", "w", ":", " ", "/">>
LineAllowAll == <<"A", "l", "l", "o", "w", ":", " ", "/">>
LineDisallowPath == <<"D", "i", "s", "a", "l", "l", "o", "w", ":", " ", "/", "p", "r", "i", "v", "a", "t", "e">>
LineComment == <<"#", " ", "r", "o", "b", "o", "t", "s">>

RobotsLines ==
    <<LineAgentAll, LineAgentGptbot, LineAgentCcbot, LineAgentAnthropic, LineDisallowAll,
      LineAllowAll, LineDisallowPath, LineComment>>

\* the longest robots.txt, in lines
MaxLines == 3

\* no robots.txt, and every robots.txt of at most MaxLines of these lines
RobotsFiles ==
    {[i \in 1..Len(e) |-> RobotsLines[e[i]]] :
        e \in UNION {[1..n -> 1..Len(RobotsLines)] : n \in 0..MaxLines}}

(***************************************************************************)
(* checks/technical.py, checks/structured_data.py, checks/authority.py     *)
(*                                                                         *)
(* A page is described by what the checks read from it.  For a check that  *)
(* looks at the markup alone the page names the branch of the check that   *)
(* it takes, counted in source order; the other checks are computed from   *)
(* the schemas of the page, the final URL, the sitemap flag and the        *)
(* response time.  Messages that format a quantity of the markup carry a   *)
(* sample value.                                                           *)
(***************************************************************************)
\* the results of the title_tag check, one per branch
title_tag ==
    << CheckResult("title_tag", FALSE, "error",
           <<"M", "i", "s", "s", "i", "n", "g", " ", "t", "i", "t", "l", "e", " ", "t", "a", "g">>, 10),
       CheckResult("title_tag", FALSE, "warning",
           <<"T", "i", "t", "l", "e", " ", "t", "o", "o", " ", "s", "h", "o", "r", "t", " ", "(", "1", "2", " ", "c", "h", "a", "r", "s", ")">>, 10),
       CheckResult("title_tag", FALSE, "warning",
           <<"T", "i", "t", "l", "e", " ", "t", "o", "o", " ", "l", "o", "n", "g", " ", "(", "7", "5", " ", "c", "h", "a", "r", "s", ")">>, 10),
       CheckResult("title_tag", TRUE, "pass",
           <<"G", "o", "o", "d", " ", "t", "i", "t", "l", "e", " ", "l", "e", "n", "g", "t", "h", " ", "(", "4", "5", " ", "c", "h", "a", "r", "s", ")">>, 10) >>

\* the results of the meta_description check, one per branch
meta_description ==
    << CheckResult("meta_description", FALSE, "error",
           <<"M", "i", "s", "s", "i", "n", "g", " ", "m", "e", "t", "a", " ", "d", "e", "s", "c", "r", "i", "p", "t", "i", "o", "n">>, 10),
       CheckResult("meta_description", FALSE, "warning",
           <<"M", "e", "t", "a", " ", "d", "e", "s", "c", "r", "i", "p", "t", "i", "o", "n", " ", "t", "o", "o", " ", "s", "h", "o", "r", "t", " ", "(", "4", "0", " ", "c", "h", "a", "r", "s", ")">>, 10),
       CheckResult("meta_description", FALSE, "warning",
           <<"M", "e", "t", "a", " ", "d", "e", "s", "c", "r", "i", "p", "t", "i", "o", "n", " ", "t", "o", "o", " ", "l", "o", "n", "g", " ", "(", "2", "0", "0", " ", "c", "h", "a", "r", "s", ")">>, 10),
       CheckResult("meta_description", TRUE, "pass",
           <<"G", "o", "o", "d", " ", "m", "e", "t", "a", " ", "d", "e", "s", "c", "r", "i", "p", "t", "i", "o", "n", " ", "(", "1", "4", "0", " ", "c", "h", "a", "r", "s", ")">>, 10) >>

\* the results of the h1_tag check, one per branch
h1_tag ==
    << CheckResult("h1_tag", FALSE, "error",
           <<"N", "o", " ", "H", "1", " ", "t", "a", "g", " ", "f", "o", "u", "n", "d">>, 10),
       CheckResult("h1_tag", FALSE, "warning",
           <<"M", "u", "l", "t", "i", "p", "l", "e", " ", "H", "1", " ", "t", "a", "g", "s", " ", "(", "2", ")">>, 10),
       CheckResult("h1_tag", TRUE, "pass",
           <<"S", "i", "n", "g", "l", "e", " ", "H", "1", " ", "t", "a", "g", ":", " ", "\"", "W", "e", "l", "c", "o", "m", "e", ".", ".", ".", "\"">>, 10) >>

\* the results of the heading_structure check, one per branch
heading_structure ==
    << CheckResult("heading_structure", FALSE, "warning",
           <<"N", "o", " ", "H", "2", " ", "t", "a", "g", "s", " ", "f", "o", "u", "n", "d">>, 5),
       CheckResult("heading_structure", TRUE, "pass",
           <<"G", "o", "o", "d", " ", "s", "t", "r", "u", "c", "t", "u", "r", "e", ":", " ", "1", " ", "H", "1", ",", " ", "3", " ", "H", "2", ",", " ", "2", " ", "H", "3", ",", " ", "0", " ", "H", "4">>, 5) >>

\* the results of the image_alt_text check, one per branch
image_alt_text ==
    << CheckResult("image_alt_text", TRUE, "pass",
           <<"N", "o", " ", "i", "m", "a", "g", "e", "s", " ", "o", "n", " ", "p", "a", "g", "e">>, 10),
       CheckResult("image_alt_text", FALSE, "error",
           <<"2", "/", "4", " ", "i", "m", "a", "g", "e", "s", " ", "m", "i", "s", "s", "i", "n", "g", " ", "a", "l", "t", " ", "a", "t", "t", "r", "i", "b", "u", "t", "e", " ", "(", "5", "0", "%", " ", "h", "a", "v", "e", " ", "a", "l", "t", ")">>, 10),
       CheckResult("image_alt_text", FALSE, "warning",
           <<"A", "l", "l", " ", "4", " ", "i", "m", "a", "g", "e", "s", " ", "h", "a", "v", "e", " ", "e", "m", "p", "t", "y", " ", "a", "l", "t", "=", "\"", "\"", " ", "(", "n", "o", " ", "d", "e", "s", "c", "r", "i", "p", "t", "i", "v", "e", " ", "t", "e", "x", "t", ")">>, 10),
       CheckResult("image_alt_text", FALSE, "notice",
           <<"O", "n", "l", "y", " ", "1", "/", "4", " ", "i", "m", "a", "g", "e", "s", " ", "h", "a", "v", "e", " ", "d", "e", "s", "c", "r", "i", "p", "t", "i", "v", "e", " ", "a", "l", "t", " ", "t", "e", "x", "t", " ", "(", "2", "5", "%", ")">>, 10),
       CheckResult("image_alt_text", TRUE, "pass",
           <<"4", "/", "4", " ", "i", "m", "a", "g", "e", "s", " ", "h", "a", "v", "e", " ", "d", "e", "s", "c", "r", "i", "p", "t", "i", "v", "e", " ", "a", "l", "t", " ", "t", "e", "x", "t", " ", "(", "1", "0", "0", "%", ")">>, 10) >>

\* the results of the mobile_viewport check, one per branch
mobile_viewport ==
    << CheckResult("mobile_viewport", FALSE, "error",
           <<"N", "o", " ", "v", "i", "e", "w", "p", "o", "r", "t", " ", "m", "e", "t", "a", " ", "t", "a", "g">>, 10),
       CheckResult("mobile_viewport", TRUE, "pass",
           <<"V", "i", "e", "w", "p", "o", "r", "t", " ", "c", "o", "n", "f", "i", "g", "u", "r", "e", "d", " ", "c", "o", "r", "r", "e", "c", "t", "l", "y">>, 10),
       CheckResult("mobile_viewport", FALSE, "warning",
           <<"V", "i", "e", "w", "p", "o", "r", "t", " ", "t", "a", "g", " ", "p", "r", "e", "s", "e", "n", "t", " ", "b", "u", "t", " ", "n", "o", "t", " ", "o", "p", "t", "i", "m", "a", "l">>, 10) >>

\* the results of the canonical_tag check, one per branch
canonical_tag ==
    << CheckResult("canonical_tag", FALSE, "notice",
           <<"N", "o", " ", "c", "a", "n", "o", "n", "i", "c", "a", "l", " ", "t", "a", "g">>, 5),
       CheckResult("canonical_tag", FALSE, "warning",
           <<"C", "a", "n", "o", "n", "i", "c", "a", "l", " ", "t", "a", "g", " ", "h", "a", "s", " ", "e", "m", "p", "t", "y", " ", "h", "r", "e", "f">>, 5),
       CheckResult("canonical_tag", TRUE, "pass",
           <<"C", "a", "n", "o", "n", "i", "c", "a", "l", " ", "t", "a", "g", " ", "i", "s", " ", "s", "e", "l", "f", "-", "r", "e", "f", "e", "r", "e", "n", "c", "i", "n", "g", " ", "(", "c", "o", "r", "r", "e", "c", "t", ")">>, 5),
       CheckResult("canonical_tag", FALSE, "notice",
           <<"C", "a", "n", "o", "n", "i", "c", "a", "l", " ", "p", "o", "i", "n", "t", "s", " ", "t", "o", " ", "d", "i", "f", "f", "e", "r", "e", "n", "t", " ", "U", "R", "L", ":", " ", "h", "t", "t", "p", "s", ":", "/", "/", "b", ".", "i", "o", "/">>, 5) >>

\* the results of the robots_meta check, one per branch
robots_meta ==
    << CheckResult("robots_meta", FALSE, "error",
           <<"P", "a", "g", "e", " ", "h", "a", "s", " ", "n", "o", "i", "n", "d", "e", "x", " ", "d", "i", "r", "e", "c", "t", "i", "v", "e", " ", "-", " ", "b", "l", "o", "c", "k", "e", "d", " ", "f", "r", "o", "m", " ", "s", "e", "a", "r", "c", "h", " ", "e", "n", "g", "i", "n", "e", "s">>, 15),
       CheckResult("robots_meta", FALSE, "warning",
           <<"P", "a", "g", "e", " ", "h", "a", "s", " ", "n", "o", "f", "o", "l", "l", "o", "w", " ", "d", "i", "r", "e", "c", "t", "i", "v", "e", " ", "-", " ", "l", "i", "n", "k", "s", " ", "n", "o", "t", " ", "f", "o", "l", "l", "o", "w", "e", "d", " ", "b", "y", " ", "c", "r", "a", "w", "l", "e", "r", "s">>, 5),
       CheckResult("robots_meta", TRUE, "pass",
           <<"N", "o", " ", "i", "n", "d", "e", "x", "i", "n", "g", " ", "r", "e", "s", "t", "r", "i", "c", "t", "i", "o", "n", "s", " ", "f", "o", "u", "n", "d">>, 15) >>

\* the results of the content_word_count check, one per branch
content_word_count ==
    << CheckResult("content_word_count", FALSE, "warning",
           <<"L", "o", "w", " ", "w", "o", "r", "d", " ", "c", "o", "u", "n", "t", " ", "(", "1", "2", "0", " ", "w", "o", "r", "d", "s", ")">>, 10),
       CheckResult("content_word_count", FALSE, "notice",
           <<"M", "o", "d", "e", "r", "a", "t", "e", " ", "w", "o", "r", "d", " ", "c", "o", "u", "n", "t", " ", "(", "4", "0", "0", " ", "w", "o", "r", "d", "s", ")">>, 10),
       CheckResult("content_word_count", TRUE, "pass",
           <<"G", "o", "o", "d", " ", "c", "o", "n", "t", "e", "n", "t", " ", "l", "e", "n", "g", "t", "h", " ", "(", "9", "0", "0", " ", "w", "o", "r", "d", "s", ")">>, 10) >>

\* the results of the internal_linking check, one per branch
internal_linking ==
    << CheckResult("internal_linking", FALSE, "notice",
           <<"O", "n", "l", "y", " ", "1", " ", "i", "n", "t", "e", "r", "n", "a", "l", " ", "l", "i", "n", "k", "s">>, 5),
       CheckResult("internal_linking", TRUE, "pass",
           <<"8", " ", "i", "n", "t", "e", "r", "n", "a", "l", " ", "l", "i", "n", "k", "s", ",", " ", "3", " ", "e", "x", "t", "e", "r", "n", "a", "l">>, 5) >>

\* the results of the language_tag check, one per branch
language_tag ==
    << CheckResult("language_tag", FALSE, "notice",
           <<"N", "o", " ", "l", "a", "n", "g", " ", "a", "t", "t", "r", "i", "b", "u", "t", "e", " ", "o", "n", " ", "<", "h", "t", "m", "l", ">", " ", "t", "a", "g">>, 5),
       CheckResult("language_tag", TRUE, "pass",
           <<"L", "a", "n", "g", "u", "a", "g", "e", " ", "s", "e", "t", " ", "t", "o", ":", " ", "e", "n">>, 5) >>

\* the results of the hreflang_tags check, one per branch
hreflang_tags ==
    << CheckResult("hreflang_tags", TRUE, "pass",
           <<"H", "r", "e", "f", "l", "a", "n", "g", " ", "c", "o", "n", "f", "i", "g", "u", "r", "e", "d", " ", "f", "o", "r", " ", "2", " ", "v", "e", "r", "s", "i", "o", "n", "s", " ", "i", "n", "c", "l", "u", "d", "i", "n", "g", " ", "x", "-", "d", "e", "f", "a", "u", "l", "t", ":", " ", "e", "n", ",", " ", "d", "e">>, 5),
       CheckResult("hreflang_tags", FALSE, "notice",
           <<"H", "r", "e", "f", "l", "a", "n", "g", " ", "p", "r", "e", "s", "e", "n", "t", " ", "(", "2", " ", "v", "e", "r", "s", "i", "o", "n", "s", ")", " ", "b", "u", "t", " ", "m", "i", "s", "s", "i", "n", "g", " ", "x", "-", "d", "e", "f", "a", "u", "l", "t", ":", " ", "e", "n", ",", " ", "d", "e">>, 5),
       CheckResult("hreflang_tags", TRUE, "pass",
           <<"N", "o", " ", "h", "r", "e", "f", "l", "a", "n", "g", " ", "t", "a", "g", "s", " ", "(", "s", "i", "n", "g", "l", "e", "-", "l", "a", "n", "g", "u", "a", "g", "e", " ", "s", "i", "t", "e", ")">>, 5) >>

\* the results of the content_freshness check, one per branch
content_freshness ==
    << CheckResult("content_freshness", FALSE, "notice",
           <<"N", "o", " ", "c", "o", "n", "t", "e", "n", "t", " ", "d", "a", "t", "e", "s", " ", "f", "o", "u", "n", "d", " ", "(", "d", "a", "t", "e", "P", "u", "b", "l", "i", "s", "h", "e", "d", "/", "d", "a", "t", "e", "M", "o", "d", "i", "f", "i", "e", "d", ")">>, 5),
       CheckResult("content_freshness", FALSE, "notice",
           <<"H", "a", "s", " ", "d", "a", "t", "e", "P", "u", "b", "l", "i", "s", "h", "e", "d", " ", "b", "u", "t", " ", "n", "o", " ", "d", "a", "t", "e", "M", "o", "d", "i", "f", "i", "e", "d", " ", "(", "d", "a", "t", "e", "P", "u", "b", "l", "i", "s", "h", "e", "d", ")">>, 5),
       CheckResult("content_freshness", TRUE, "pass",
           <<"C", "o", "n", "t", "e", "n", "t", " ", "d", "a", "t", "e", "s", " ", "p", "r", "e", "s", "e", "n", "t", " ", "(", "d", "a", "t", "e", "P", "u", "b", "l", "i", "s", "h", "e", "d", ",", " ", "d", "a", "t", "e", "M", "o", "d", "i", "f", "i", "e", "d", ")">>, 5) >>

\* the results of the about_page check, one per branch
about_page ==
    << CheckResult("about_page", FALSE, "notice",
           <<"N", "o", " ", "A", "b", "o", "u", "t", " ", "p", "a", "g", "e", " ", "l", "i", "n", "k", " ", "f", "o", "u", "n", "d">>, 5),
       CheckResult("about_page", TRUE, "pass",
           <<"A", "b", "o", "u", "t", " ", "p", "a", "g", "e", " ", "l", "i", "n", "k", " ", "f", "o", "u", "n", "d">>, 5) >>

\* the results of the contact_info check, one per branch
contact_info ==
    << CheckResult("contact_info", FALSE, "warning",
           <<"N", "o", " ", "c", "o", "n", "t", "a", "c", "t", " ", "i", "n", "f", "o", "r", "m", "a", "t", "i", "o", "n", " ", "f", "o", "u", "n", "d">>, 5),
       CheckResult("contact_info", TRUE, "pass",
           <<"C", "o", "n", "t", "a", "c", "t", " ", "i", "n", "f", "o", " ", "f", "o", "u", "n", "d", ":", " ", "e", "m", "a", "i", "l", ",", " ", "p", "h", "o", "n", "e">>, 5) >>

\* the results of the social_proof_links check, one per branch
social_proof_links ==
    << CheckResult("social_proof_links", FALSE, "warning",
           <<"N", "o", " ", "s", "o", "c", "i", "a", "l", " ", "m", "e", "d", "i", "a", " ", "l", "i", "n", "k", "s", " ", "f", "o", "u", "n", "d">>, 4),
       CheckResult("social_proof_links", FALSE, "notice",
           <<"F", "o", "u", "n", "d", " ", "s", "o", "c", "i", "a", "l", " ", "l", "i", "n", "k", "s", " ", "(", "f", "a", "c", "e", "b", "o", "o", "k", ")", " ", "b", "u", "t", " ", "m", "i", "s", "s", "i", "n", "g", " ", "L", "i", "n", "k", "e", "d", "I", "n", "/", "T", "w", "i", "t", "t", "e", "r">>, 4),
       CheckResult("social_proof_links", TRUE, "pass",
           <<"S", "o", "c", "i", "a", "l", " ", "p", "r", "o", "o", "f", " ", "l", "i", "n", "k", "s", " ", "f", "o", "u", "n", "d", ":", " ", "l", "i", "n", "k", "e", "d", "i", "n", ",", " ", "t", "w", "i", "t", "t", "e", "r">>, 4) >>

MsgNoStructuredData == <<"N", "o", " ", "s", "t", "r", "u", "c", "t", "u", "r", "e", "d", " ", "d", "a", "t", "a", " ", "(", "s", "c", "h", "e", "m", "a", ".", "o", "r", "g", ")", " ", "f", "o", "u", "n", "d">>
MsgStructuredDataBlocks == <<" ", "s", "t", "r", "u", "c", "t", "u", "r", "e", "d", " ", "d", "a", "t", "a", " ", "b", "l", "o", "c", "k", "s", " ", "f", "o", "u", "n", "d">>
MsgNoHttps == <<"S", "i", "t", "e", " ", "n", "o", "t", " ", "u", "s", "i", "n", "g", " ", "H", "T", "T", "P", "S">>
MsgHttps == <<"S", "i", "t", "e", " ", "u", "s", "i", "n", "g", " ", "H", "T", "T", "P", "S">>
MsgSitemap == <<"S", "i", "t", "e", "m", "a", "p", ".", "x", "m", "l", " ", "f", "o", "u", "n", "d">>
MsgNoSitemap == <<"N", "o", " ", "s", "i", "t", "e", "m", "a", "p", ".", "x", "m", "l", " ", "f", "o", "u", "n", "d">>
MsgFastResponse == <<"F", "a", "s", "t", " ", "r", "e", "s", "p", "o", "n", "s", "e", " ", "t", "i", "m", "e", " ", "(">>
MsgModerateResponse == <<"M", "o", "d", "e", "r", "a", "t", "e", " ", "r", "e", "s", "p", "o", "n", "s", "e", " ", "t", "i", "m", "e", " ", "(">>
MsgSlowResponse == <<"S", "l", "o", "w", " ", "r", "e", "s", "p", "o", "n", "s", "e", " ", "t", "i", "m", "e", " ", "(">>
MsgVerySlowResponse == <<"V", "e", "r", "y", " ", "s", "l", "o", "w", " ", "r", "e", "s", "p", "o", "n", "s", "e", " ", "t", "i", "m", "e", " ", "(">>
MsgMs == <<"m", "s", ")">>
MsgOrgIncomplete == <<"O", "r", "g", "a", "n", "i", "z", "a", "t", "i", "o", "n", " ", "s", "c", "h", "e", "m", "a", " ", "i", "n", "c", "o", "m", "p", "l", "e", "t", "e", " ", "(">>
MsgOrgComplete == <<"O", "r", "g", "a", "n", "i", "z", "a", "t", "i", "o", "n", " ", "s", "c", "h", "e", "m", "a", " ", "c", "o", "m", "p", "l", "e", "t", "e", " ", "(">>
MsgPercent == <<"%", ")">>
MsgNoFaq == <<"N", "o", " ", "F", "A", "Q", " ", "s", "c", "h", "e", "m", "a", " ", "f", "o", "u", "n", "d">>
MsgFaq == <<"F", "A", "Q", " ", "s", "c", "h", "e", "m", "a", " ", "p", "r", "e", "s", "e", "n", "t">>
MsgNoContentSchema == <<"N", "o", " ", "c", "o", "n", "t", "e", "n", "t", " ", "s", "c", "h", "e", "m", "a", " ", "(", "H", "o", "w", "T", "o", "/", "A", "r", "t", "i", "c", "l", "e", ")", " ", "f", "o", "u", "n", "d">>
MsgContentSchema == <<"C", "o", "n", "t", "e", "n", "t", " ", "s", "c", "h", "e", "m", "a", " ", "p", "r", "e", "s", "e", "n", "t", ":", " ", "A", "r", "t", "i", "c", "l", "e">>
MsgNoSameAs == <<"N", "o", " ", "s", "a", "m", "e", "A", "s", " ", "l", "i", "n", "k", "s", " ", "i", "n", " ", "O", "r", "g", "a", "n", "i", "z", "a", "t", "i", "o", "n", " ", "s", "c", "h", "e", "m", "a">>
MsgOnly == <<"O", "n", "l", "y", " ">>
MsgSameAsLinkS == <<" ", "s", "a", "m", "e", "A", "s", " ", "l", "i", "n", "k", "(", "s", ")">>
MsgSameAsFound == <<" ", "s", "a", "m", "e", "A", "s", " ", "l", "i", "n", "k", "s", " ", "f", "o", "u", "n", "d">>
MsgNoValidatable == <<"N", "o", " ", "v", "a", "l", "i", "d", "a", "t", "a", "b", "l", "e", " ", "s", "c", "h", "e", "m", "a", "s", " ", "f", "o", "u", "n", "d">>
MsgValidationErrors == <<"S", "c", "h", "e", "m", "a", " ", "v", "a", "l", "i", "d", "a", "t", "i", "o", "n", " ", "e", "r", "r", "o", "r", "s", " ", "(">>
MsgValidationMissing == <<")", ":", " ", "O", "r", "g", "a", "n", "i", "z", "a", "t", "i", "o", "n", " ", "m", "i", "s", "s", "i", "n", "g", ":", " ", "n", "a", "m", "e">>
MsgAll == <<"A", "l", "l", " ">>
MsgHaveRequired == <<" ", "s", "c", "h", "e", "m", "a", "s", " ", "h", "a", "v", "e", " ", "r", "e", "q", "u", "i", "r", "e", "d", " ", "f", "i", "e", "l", "d", "s">>
PrefixHttps == <<"h", "t", "t", "p", "s", ":", "/", "/">>
UrlHttps == <<"h", "t", "t", "p", "s", ":", "/", "/", "a", ".", "i", "o", "/">>
UrlHttp == <<"h", "t", "t", "p", ":", "/", "/", "a", ".", "i", "o", "/">>

\* str(n) for a non-negative int n
RECURSIVE IntToChars(_)
IntToChars(n) ==
    IF n < 10 THEN <<DigitChars[n + 1]>>
    ELSE IntToChars(n \div 10) \o <<DigitChars[(n % 10) + 1]>>

\* the float literals 0.2, 0.15, 0.1, 0.05, 0.025 and 0.5
Float02 == <<0, 209728, 209715, 209715, 0>>
Float015 == <<0, 419424, 419430, 157286, 0>>
Float01 == <<0, 629152, 629145, 104857, 0>>
Float005 == <<0, 838864, 838860, 52428, 0>>
Float0025 == <<0, 419432, 419430, 26214, 0>>
Float05 == <<0, 0, 0, 524288, 0>>

\* format(a, '.0f') as an int: the nearest integer to the exact value of a,
\* an exact tie going to the even integer
RoundUnits(a) ==
    LET n    == a[NLimbs]
        frac == [a EXCEPT ![NLimbs] = 0]
        half == Pow2(FracBits - 1)
    IN  IF Less(half, frac) THEN n + 1
        ELSE IF frac = half THEN n + (n % 2)
        ELSE n

\* score += weight, when the schema has the field
Plus(acc, has_field, weight) == IF has_field THEN FloatAdd(acc, weight) ELSE acc

\* an Organization schema: whether the page has one, the fields it holds
\* other than sameAs, and the number of its sameAs links
NoOrgSchema == [present |-> FALSE, fields |-> {}, sameAs |-> 0]

calculate_org_schema_completeness(org_schema) ==
    IF ~org_schema.present THEN Zero
    ELSE LET has(field) == field \in org_schema.fields
             required_score  == Plus(Plus(Zero, has("name"), Float02), has("url"), Float02)
             important_score == Plus(Plus(Plus(Zero, has("logo"), Float015),
                                          has("description"), Float015),
                                     org_schema.sameAs > 0, Float01)
             optional_score  == Plus(Plus(Plus(Plus(Zero, has("address"), Float01),
                                               has("contactPoint"), Float005),
                                          has("foundingDate"), Float0025),
                                     has("founder"), Float0025)
         IN  Min2(FromInt(1), FloatAdd(FloatAdd(required_score, important_score),
                                       optional_score))

count_same_as_links(org_schema) == IF ~org_schema.present THEN 0 ELSE org_schema.sameAs

\* f'{completeness*100:.0f}'
Percent(fraction) == IntToChars(RoundUnits(FloatMulInt(fraction, 100)))

\* the result of the check of a page that takes the branch-th branch
Branch(results, branch) == results[branch]

\* === 7. STRUCTURED DATA PRESENCE ===: the JSON-LD blocks of the page
schema_count(soup) ==
    (IF soup.org_schema.present THEN 1 ELSE 0) + Cardinality(soup.schema_types)

structured_data_presence(soup) ==
    IF schema_count(soup) = 0
        THEN CheckResult("structured_data_presence", FALSE, "warning", MsgNoStructuredData, 10)
        ELSE CheckResult("structured_data_presence", TRUE, "pass",
                         IntToChars(schema_count(soup)) \o MsgStructuredDataBlocks, 10)

\* === 8. HTTPS ===
https(final_url) ==
    IF ~StartsWith(PrefixHttps, final_url)
        THEN CheckResult("https", FALSE, "error", MsgNoHttps, 10)
        ELSE CheckResult("https", TRUE, "pass", MsgHttps, 10)

\* === 14. SITEMAP.XML ===
sitemap_xml(sitemap_found) ==
    IF sitemap_found
        THEN CheckResult("sitemap_xml", TRUE, "pass", MsgSitemap, 5)
        ELSE CheckResult("sitemap_xml", FALSE, "warning", MsgNoSitemap, 5)

\* === 15. RESPONSE TIME ===: the results that the section appends
response_time(response_time_ms) ==
    LET ms == IntToChars(response_time_ms) \o MsgMs
    IN  IF response_time_ms > 0
            THEN IF response_time_ms < 500
                     THEN <<CheckResult("response_time", TRUE, "pass", MsgFastResponse \o ms, 5)>>
                 ELSE IF response_time_ms < 1000
                     THEN <<CheckResult("response_time", FALSE, "notice",
                                        MsgModerateResponse \o ms, 5)>>
                 ELSE IF response_time_ms < 2000
                     THEN <<CheckResult("response_time", FALSE, "warning",
                                        MsgSlowResponse \o ms, 5)>>
                 ELSE <<CheckResult("response_time", FALSE, "error",
                                    MsgVerySlowResponse \o ms, 5)>>
            ELSE <<>>

run_technical_checks(soup, final_url, sitemap_found, response_time_ms) ==
    << Branch(title_tag, soup.outcome.title_tag),
       Branch(meta_description, soup.outcome.meta_description),
       Branch(h1_tag, soup.outcome.h1_tag),
       Branch(heading_structure, soup.outcome.heading_structure),
       Branch(image_alt_text, soup.outcome.image_alt_text),
       Branch(mobile_viewport, soup.outcome.mobile_viewport),
       structured_data_presence(soup),
       https(final_url),
       Branch(canonical_tag, soup.outcome.canonical_tag),
       Branch(robots_meta, soup.outcome.robots_meta),
       Branch(content_word_count, soup.outcome.content_word_count),
       Branch(internal_linking, soup.outcome.internal_linking),
       Branch(language_tag, soup.outcome.language_tag),
       sitemap_xml(sitemap_found) >>
    \o response_time(response_time_ms)
    \o << Branch(hreflang_tags, soup.outcome.hreflang_tags) >>

\* === 1. ORGANIZATION SCHEMA COMPLETENESS ===
org_schema_completeness(org_schema) ==
    LET fraction == calculate_org_schema_completeness(org_schema)
    IN  IF ~org_schema.present
            THEN CheckResult("org_schema_completeness", FALSE, "warning", MsgNoOrg, 10)
        ELSE IF Less(fraction, Float05)
            THEN CheckResult("org_schema_completeness", FALSE, "warning",
                             MsgOrgIncomplete \o Percent(fraction) \o MsgPercent, 10)
        ELSE CheckResult("org_schema_completeness", TRUE, "pass",
                         MsgOrgComplete \o Percent(fraction) \o MsgPercent, 10)

\* === 2. FAQ SCHEMA ===
faq_schema(schema_types) ==
    IF schema_types \cap {"FAQPage", "Question"} = {}
        THEN CheckResult("faq_schema", FALSE, "notice", MsgNoFaq, 5)
        ELSE CheckResult("faq_schema", TRUE, "pass", MsgFaq, 5)

\* === 3. HOWTO/ARTICLE SCHEMA ===
content_schema(schema_types) ==
    IF schema_types \cap {"HowTo", "Article", "BlogPosting", "NewsArticle", "TechArticle"} = {}
        THEN CheckResult("content_schema", FALSE, "notice", MsgNoContentSchema, 5)
        ELSE CheckResult("content_schema", TRUE, "pass", MsgContentSchema, 5)

\* === 4. SAMEAS LINKS (Knowledge Graph) ===
sameas_links(org_schema) ==
    LET same_as_count == count_same_as_links(org_schema)
    IN  IF same_as_count = 0
            THEN CheckResult("sameas_links", FALSE, "warning", MsgNoSameAs, 5)
        ELSE IF same_as_count < 3
            THEN CheckResult("sameas_links", FALSE, "notice",
                             MsgOnly \o IntToChars(same_as_count) \o MsgSameAsLinkS, 5)
        ELSE CheckResult("sameas_links", TRUE, "pass",
                         IntToChars(same_as_count) \o MsgSameAsFound, 5)

\* SCHEMA_REQUIRED_FIELDS['Organization']
OrganizationRequired == {"name", "url"}

\* validate_all_schemas: the schemas with required fields, and those of them
\* that miss one
validate_all_schemas(soup) ==
    LET org_errors == IF soup.org_schema.present
                          /\ ~(OrganizationRequired \subseteq soup.org_schema.fields)
                      THEN 1 ELSE 0
    IN  [schemas_checked |-> schema_count(soup),
         validation_errors |-> org_errors + Cardinality(soup.invalid_types)]

\* === 6. JSON-LD VALIDATION ===
jsonld_validation(soup) ==
    LET validation == validate_all_schemas(soup)
    IN  IF validation.schemas_checked = 0
            THEN CheckResult("jsonld_validation", TRUE, "pass", MsgNoValidatable, 5)
        ELSE IF validation.validation_errors > 0
            THEN CheckResult("jsonld_validation", FALSE, "warning",
                             MsgValidationErrors \o IntToChars(validation.validation_errors)
                                 \o MsgValidationMissing, 5)
        ELSE CheckResult("jsonld_validation", TRUE, "pass",
                         MsgAll \o IntToChars(validation.schemas_checked)
                             \o MsgHaveRequired, 5)

run_structured_data_checks(soup) ==
    << org_schema_completeness(soup.org_schema),
       faq_schema(soup.schema_types),
       content_schema(soup.schema_types),
       sameas_links(soup.org_schema),
       Branch(content_freshness, soup.outcome.content_freshness),
       jsonld_validation(soup) >>

run_authority_checks(soup) ==
    << Branch(about_page, soup.outcome.about_page),
       Branch(contact_info, soup.outcome.contact_info),
       Branch(social_proof_links, soup.outcome.social_proof_links) >>

(***************************************************************************)
(* fetcher.py: fetch_website                                               *)
(*                                                                         *)
(* An HTML document is None, the empty string, or a page.  A site is what  *)
(* the network answers: the static fetch of the URL, the Playwright fetch  *)
(* of it, robots.txt and whether a sitemap exists.                         *)
(***************************************************************************)
ErrorCloudflare == <<"S", "i", "t", "e", " ", "p", "r", "o", "t", "e", "c", "t", "e", "d", " ", "b", "y", " ", "C", "l", "o", "u", "d", "f", "l", "a", "r", "e", " ", "c", "h", "a", "l", "l", "e", "n", "g", "e", " ", "-", " ", "u", "n", "a", "b", "l", "e", " ", "t", "o", " ", "a", "n", "a", "l", "y", "z", "e", " ", "(", "P", "l", "a", "y", "w", "r", "i", "g", "h", "t", " ", "a", "l", "s", "o", " ", "b", "l", "o", "c", "k", "e", "d", ")">>
ErrorFailedToFetch == <<"F", "a", "i", "l", "e", "d", " ", "t", "o", " ", "f", "e", "t", "c", "h", " ">>
DetailFailedToFetch == <<"F", "a", "i", "l", "e", "d", " ", "t", "o", " ", "f", "e", "t", "c", "h", ":", " ">>
PatFailedToFetch == <<"F", "a", "i", "l", "e", "d", " ", "t", "o", " ", "f", "e", "t", "c", "h">>
DetailInvalidInput == <<"I", "n", "v", "a", "l", "i", "d", " ", "i", "n", "p", "u", "t", ":", " ">>
DetailInternalError == <<"I", "n", "t", "e", "r", "n", "a", "l", " ", "e", "r", "r", "o", "r", ":", " ">>
PrefixHttp == <<"h", "t", "t", "p", ":", "/", "/">>
UrlBare == <<"a", ".", "i", "o">>

NoneHtml == [kind |-> "None"]

EmptyHtml == [kind |-> "empty"]

\* bool(html)
Truthy(html) == html.kind = "page"

\* at least two of CLOUDFLARE_PATTERNS occur in the document
is_cloudflare_challenge(html) ==
    IF ~Truthy(html) THEN FALSE
    ELSE html.cloudflare_patterns >= 2

needs_js_rendering(html) ==
    IF ~Truthy(html) THEN TRUE
    ELSE IF html.word_count < 100 /\ html.has_spa_marker THEN TRUE
    ELSE IF html.word_count < 50 THEN TRUE
    ELSE FALSE

\* error=None
NoError == <<>>

FetchResult(html, final_url, robots_text, sitemap_found, html_response_time_ms, status_code, js_rendered, error) ==
    [html |-> html, final_url |-> final_url, robots_txt |-> robots_text,
     sitemap_found |-> sitemap_found, html_response_time_ms |-> html_response_time_ms,
     status_code |-> status_code, js_rendered |-> js_rendered, error |-> error]

\* if not url.startswith(('http://', 'https://')): url = f'https://{url}'
NormalizeUrl(url) ==
    IF StartsWith(PrefixHttp, url) \/ StartsWith(PrefixHttps, url) THEN url
    ELSE PrefixHttps \o url

fetch_website(site, enable_js_rendering) ==
    LET url                 == NormalizeUrl(site.url)
        static              == site.static
        cloudflare_detected == Truthy(static.html) /\ is_cloudflare_challenge(static.html)
        spa_detected        == Truthy(static.html) /\ needs_js_rendering(static.html)
        js                  == site.playwright
        rendered            == /\ enable_js_rendering
                               /\ cloudflare_detected \/ spa_detected
                               /\ Truthy(js.html)
                               /\ ~is_cloudflare_challenge(js.html)
        html                == IF rendered THEN js.html ELSE static.html
        fetched             == IF rendered THEN js ELSE static
    IN  IF /\ enable_js_rendering
           /\ cloudflare_detected \/ spa_detected
           /\ ~rendered
           /\ cloudflare_detected
            THEN FetchResult(NoneHtml, static.final_url, site.robots_txt,
                             site.sitemap_found, static.elapsed_ms, 403, FALSE,
                             ErrorCloudflare)
        ELSE IF html = NoneHtml
            THEN FetchResult(NoneHtml, fetched.final_url, site.robots_txt,
                             site.sitemap_found, fetched.elapsed_ms, fetched.status_code,
                             rendered, ErrorFailedToFetch \o url)
        ELSE FetchResult(html, fetched.final_url, site.robots_txt, site.sitemap_found,
                         fetched.elapsed_ms, fetched.status_code, rendered, NoError)

(***************************************************************************)
(* app.py: the /health endpoint                                            *)
(***************************************************************************)
HTTPException(status_code, detail) ==
    [raised |-> "HTTPException", status_code |-> status_code, detail |-> detail]

\* the except clauses of health_check without the clause for HTTPException
health_check_except_generic(exception) ==
    IF exception.raised = "ValueError"
        THEN HTTPException(400, DetailInvalidInput \o exception.detail)
    ELSE HTTPException(500, DetailInternalError \o exception.detail)

\* the except clauses of health_check
health_check_except(exception) ==
    IF exception.raised = "HTTPException" THEN exception
    ELSE IF exception.raised = "ValueError"
        THEN HTTPException(400, DetailInvalidInput \o exception.detail)
    ELSE HTTPException(500, DetailInternalError \o exception.detail)

\* BeautifulSoup(fetch_result.html, 'html.parser') of the empty string: no
\* title, no description, no headings, no images, no links, no schemas
EmptyOutcome ==
    [title_tag |-> 1, meta_description |-> 1, h1_tag |-> 1, heading_structure |-> 1,
     image_alt_text |-> 1, mobile_viewport |-> 1, canonical_tag |-> 1, robots_meta |-> 3,
     content_word_count |-> 1, internal_linking |-> 1, language_tag |-> 1,
     hreflang_tags |-> 3, content_freshness |-> 1, about_page |-> 1, contact_info |-> 1,
     social_proof_links |-> 1]

BeautifulSoup(html) ==
    IF Truthy(html) THEN html
    ELSE [kind |-> "page", cloudflare_patterns |-> 0, has_spa_marker |-> FALSE,
          word_count |-> 0, outcome |-> EmptyOutcome, org_schema |-> NoOrgSchema,
          schema_types |-> {}, invalid_types |-> {}]

\* fetch_result.robots_txt or ""
OrEmpty(text) == IF text = None THEN EmptyText ELSE text

\* all_results = technical_results + structured_results + crawler_results
\*               + authority_results
all_results(fetched) ==
    LET soup == BeautifulSoup(fetched.html)
    IN  run_technical_checks(soup, fetched.final_url, fetched.sitemap_found,
                             fetched.html_response_time_ms)
        \o run_structured_data_checks(soup)
        \o run_aeo_crawler_checks(OrEmpty(fetched.robots_txt))
        \o run_authority_checks(soup)

\* sum(1 for r in all_results if r.get("passed") == True)
RECURSIVE CountPassed(_)
CountPassed(results) ==
    IF results = <<>> THEN 0
    ELSE (IF Get(Head(results), "passed", FALSE) = TRUE THEN 1 ELSE 0)
         + CountPassed(Tail(results))

(***************************************************************************)
(* aeo-checks/complete_analysis.py: run_complete_analysis                  *)
(*                                                                         *)
(* A service answers a POST with status 200 and a body ("ok"), with status *)
(* 200 and a body that holds an 'error' key ("error_body"), with status    *)
(* 200 and the body {} ("empty"), with another status ("status"), or the   *)
(* request raises ("raised").  A dict is a record.                         *)
(***************************************************************************)
EmptyDict == [key \in {} |-> ""]

\* bool(d) and d.get("error") for a dict d
NonEmpty(dict) == DOMAIN dict # {}

HasError(dict) == "error" \in DOMAIN dict /\ dict.error # ""

\* one of the three analysis steps: the dict it stores and the errors it
\* appends
Step(name, answer) ==
    IF answer = "ok" THEN [stored |-> [data |-> name], errors |-> <<>>]
    ELSE IF answer = "error_body"
        THEN [stored |-> [data |-> name, error |-> "reported by the service"],
              errors |-> <<>>]
    ELSE IF answer = "empty" THEN [stored |-> EmptyDict, errors |-> <<>>]
    ELSE IF answer = "status"
        THEN [stored |-> [error |-> name \o " failed: 500", status_code |-> "500"],
              errors |-> <<name \o " failed: 500">>]
    ELSE [stored |-> [error |-> name \o " error: timeout"],
          errors |-> <<name \o " error: timeout">>]

\* x or y, for the operands of the success expression: the Python value
PyOr(no_errors, company_analysis) ==
    IF no_errors THEN "True"
    ELSE IF ~NonEmpty(company_analysis) THEN "{}"
    ELSE IF ~HasError(company_analysis) THEN "True"
    ELSE "False"

run_complete_analysis(answers) ==
    LET company     == Step("Company analysis", answers.company)
        health      == Step("Health check", answers.health)
        asked       == NonEmpty(company.stored) /\ ~HasError(company.stored)
        mentions    == IF asked THEN Step("Mentions check", answers.mentions)
                       ELSE [stored |-> [error |-> "Company analysis required for mentions check"],
                             errors |-> <<"Skipping mentions check - company analysis failed or incomplete">>]
        report      == IF answers.report = "ok"
                           THEN [html |-> "report", errors |-> <<>>]
                       ELSE [html |-> "Error generating report",
                             errors |-> <<"HTML report generation error: failed">>]
        pdf         == IF answers.pdf = "None" THEN [requested |-> FALSE, errors |-> <<>>]
                       ELSE IF answers.pdf = "ok" THEN [requested |-> TRUE, errors |-> <<>>]
                       ELSE IF answers.pdf = "status"
                           THEN [requested |-> TRUE, errors |-> <<"PDF generation failed: 500">>]
                       ELSE [requested |-> TRUE, errors |-> <<"PDF generation error: timeout">>]
        errors      == company.errors \o health.errors \o mentions.errors
                       \o report.errors \o pdf.errors
    IN  [company_analysis |-> company.stored,
         health_check |-> health.stored,
         mentions_check |-> mentions.stored,
         html_report |-> report.html,
         success |-> PyOr(Len(errors) = 0, company.stored),
         errors |-> errors,
         posts |-> <<"/company/analyze", "/health/check">>
                   \o (IF asked THEN <<"/mentions/check">> ELSE <<>>)
                   \o (IF pdf.requested THEN <<"/convert">> ELSE <<>>)]

(***************************************************************************)
(* Pages, sites and service answers                                        *)
(***************************************************************************)
\* the tables of the checks that look at the markup alone
Branches ==
    [title_tag |-> title_tag, meta_description |-> meta_description, h1_tag |-> h1_tag,
     heading_structure |-> heading_structure, image_alt_text |-> image_alt_text,
     mobile_viewport |-> mobile_viewport, canonical_tag |-> canonical_tag,
     robots_meta |-> robots_meta, content_word_count |-> content_word_count,
     internal_linking |-> internal_linking, language_tag |-> language_tag,
     hreflang_tags |-> hreflang_tags, content_freshness |-> content_freshness,
     about_page |-> about_page, contact_info |-> contact_info,
     social_proof_links |-> social_proof_links]

\* the passing branch of every such check
PassingOutcome ==
    [c \in DOMAIN Branches |->
        CHOOSE b \in 1..Len(Branches[c]) :
            /\ Branches[c][b].passed
            /\ \A a \in 1..(b - 1) : ~Branches[c][a].passed]

OrgSchema(fields, sameAs) == [present |-> TRUE, fields |-> fields, sameAs |-> sameAs]

\* name, url, logo, description, sameAs, address, contactPoint, foundingDate
\* and founder: 100%
FullSchema ==
    OrgSchema({"name", "url", "logo", "description", "address", "contactPoint",
               "foundingDate", "founder"}, 3)

\* a page on which every check passes
PagePassing ==
    [kind |-> "page", cloudflare_patterns |-> 0, has_spa_marker |-> FALSE,
     word_count |-> 900, outcome |-> PassingOutcome, org_schema |-> FullSchema,
     schema_types |-> {"FAQPage", "Article"}, invalid_types |-> {}]

\* the Organization schemas of the pages: none, and schemas of 20%, 50%, 60%,
\* 70%, 32.5% and 80% completeness
OrgSchemas ==
    {NoOrgSchema,
     OrgSchema({"name"}, 0),
     OrgSchema({"name", "url"}, 3),
     OrgSchema({"name", "url", "address"}, 3),
     OrgSchema({"name", "url", "logo", "description"}, 0),
     OrgSchema({"name", "logo", "contactPoint", "foundingDate"}, 1),
     OrgSchema({"name", "url", "logo", "description"}, 2),
     FullSchema}

\* the pages: the passing page, with one check taking another branch, with
\* another Organization schema, or with other schemas beside it
Pages ==
    UNION {{[PagePassing EXCEPT !.outcome[c] = b] : b \in 1..Len(Branches[c])} :
               c \in DOMAIN Branches} \cup
    {[PagePassing EXCEPT !.org_schema = o] : o \in OrgSchemas} \cup
    {[PagePassing EXCEPT !.schema_types = {}],
     [PagePassing EXCEPT !.schema_types = {}, !.org_schema = NoOrgSchema],
     [PagePassing EXCEPT !.invalid_types = {"Article"}]}

\* a Cloudflare challenge page, a page with one of the patterns, a
\* single-page application and a page of few words
ChallengePage ==
    [PagePassing EXCEPT !.cloudflare_patterns = 2, !.word_count = 20,
                        !.org_schema = NoOrgSchema]

OnePatternPage == [PagePassing EXCEPT !.cloudflare_patterns = 1]

SpaPage == [PagePassing EXCEPT !.has_spa_marker = TRUE, !.word_count = 70]

FewWordsPage == [PagePassing EXCEPT !.word_count = 30]

Answer(html, status_code, final_url, elapsed_ms) ==
    [html |-> html, status_code |-> status_code, final_url |-> final_url,
     elapsed_ms |-> elapsed_ms]

\* fetch_url and fetch_with_playwright return (None, 0, url, elapsed_ms) when
\* the request fails
Answers(url) ==
    {Answer(h, 200, url, 120) : h \in {EmptyHtml, PagePassing, ChallengePage,
                                       OnePatternPage, SpaPage, FewWordsPage}}
    \cup {Answer(NoneHtml, 0, url, 120)}

\* a site that serves the passing page quickly over HTTPS, with a sitemap and
\* without robots.txt
SitePage(page) ==
    [url |-> UrlHttps,
     static |-> Answer(page, 200, UrlHttps, 120),
     playwright |-> Answer(page, 200, UrlHttps, 900),
     robots_txt |-> None,
     sitemap_found |-> TRUE]

\* the response times of the static fetch, in ms
ResponseTimes == {0, 120, 700, 1500, 2500}

Sites ==
    {SitePage(p) : p \in Pages} \cup
    {[SitePage(PagePassing) EXCEPT !.static = s, !.playwright = j] :
        s \in Answers(UrlHttps), j \in Answers(UrlHttps)} \cup
    {[SitePage(PagePassing) EXCEPT !.robots_txt = r] :
        r \in {EmptyText, <<LineAgentAll, LineDisallowAll>>,
               <<LineAgentGptbot, LineDisallowAll>>,
               <<LineAgentAll, LineDisallowAll, LineAgentGptbot>>}} \cup
    {[SitePage(PagePassing) EXCEPT !.static.elapsed_ms = t] : t \in ResponseTimes} \cup
    {[SitePage(o) EXCEPT !.static.elapsed_ms = 0] :
        o \in {[PagePassing EXCEPT !.org_schema = OrgSchema({"name", "url"}, 3)]}} \cup
    {[SitePage(PagePassing) EXCEPT !.sitemap_found = FALSE],
     [SitePage(PagePassing) EXCEPT !.url = UrlBare],
     [SitePage(PagePassing) EXCEPT !.url = UrlHttp, !.static.final_url = UrlHttp]}

\* how the services answer the requests of run_complete_analysis; "None" for
\* pdf means that no PDF service is configured
ServiceAnswers ==
    [company : {"ok", "error_body", "empty", "status", "raised"},
     health : {"ok", "error_body", "status", "raised"},
     mentions : {"ok", "error_body", "status", "raised"},
     report : {"ok", "raised"},
     pdf : {"None", "ok", "status", "raised"}]

(***************************************************************************)
(* State machine                                                           *)
(***************************************************************************)
VARIABLES
    issues,     \* the list handed to calculate_tiered_score
    pc,         \* "input", "scored", "raised", "flipped", "reordered", "graded", "done";
                \* "request", "fetched", "fetched_static", "rejected", "responded";
                \* "robots"; "analysis", "analysed"
    result,     \* what the last call returned
    previous,   \* what the call before it returned
    grade,      \* calculate_grade of the returned score
    band,       \* calculate_visibility_band of the returned score
    score,      \* a score that a caller grades by itself
    score_grade,    \* calculate_grade(score)
    score_band,     \* calculate_visibility_band(score)
    request,        \* the site that a request to /health names
    fetch_result,   \* what fetch_website returned
    response,       \* what the /health endpoint answers
    robots_txt,     \* the text handed to run_aeo_crawler_checks
    answers,        \* how the services answer run_complete_analysis
    analysis        \* what run_complete_analysis returned

vars == <<issues, pc, result, previous, grade, band, score, score_grade, score_band,
          request, fetch_result, response, robots_txt, answers, analysis>>

\* the variables of the /health endpoint, the crawler checks and the complete
\* analysis
pipeline == <<request, fetch_result, response, robots_txt, answers, analysis>>

\* the variables of the grading steps
grades == <<grade, band, score, score_grade, score_band>>

NoResult == [score |-> -1]

NoGrade == ""

NoBand == <<"", "">>

NoRequest == [url |-> <<>>]

NoFetch == [status_code |-> -1]

NoResponse == [status_code |-> -1]

NoAnswers == [company |-> "None"]

NoAnalysis == [success |-> "None"]

\* nothing was fetched, answered or analysed
Idle ==
    /\ fetch_result = NoFetch /\ response = NoResponse /\ analysis = NoAnalysis

\* nothing was scored or graded
Unscored ==
    /\ result = NoResult /\ previous = NoResult
    /\ grade = NoGrade /\ band = NoBand
    /\ score_grade = NoGrade /\ score_band = NoBand

\* a request to the /health endpoint for one of the sites
InitRequest(sites) ==
    /\ request \in sites
    /\ pc = "request"
    /\ issues = <<>> /\ score = 0 /\ Unscored /\ Idle
    /\ robots_txt = None /\ answers = NoAnswers

\* a call of run_aeo_crawler_checks with one of the files
InitRobots(files) ==
    /\ robots_txt \in files
    /\ pc = "robots"
    /\ issues = <<>> /\ score = 0 /\ Unscored /\ Idle
    /\ request = NoRequest /\ answers = NoAnswers

\* a call of run_complete_analysis with services that answer in one of the ways
InitAnalysis(ways) ==
    /\ answers \in ways
    /\ pc = "analysis"
    /\ issues = <<>> /\ score = 0 /\ Unscored /\ Idle
    /\ request = NoRequest /\ robots_txt = None

\* a caller hands a list of results to calculate_tiered_score
InitInputs ==
    /\ issues \in Inputs
    /\ pc = "input"
    /\ score = 0 /\ Unscored /\ Idle
    /\ request = NoRequest /\ robots_txt = None /\ answers = NoAnswers

Init ==
    \/ InitInputs
    \/ InitRequest(Sites)
    \/ InitRobots(RobotsFiles)
    \/ InitAnalysis(ServiceAnswers)

\* Score with the defaults written into the results (issue.setdefault)
Score_setdefault ==
    /\ pc = "input"
    /\ result' = calculate_tiered_score(issues)
    /\ issues' = [n \in 1..Len(issues) |-> issues[n] @@ [score_impact |-> 5]]
    /\ pc' = IF result' = AttributeError THEN "raised" ELSE "scored"
    /\ UNCHANGED <<previous, grades, pipeline>>

\* score, tier_details = calculate_tiered_score(issues)
Score ==
    /\ pc = "input"
    /\ result' = calculate_tiered_score(issues)
    /\ pc' = IF result' = AttributeError THEN "raised" ELSE "scored"
    /\ UNCHANGED <<issues, previous, grades, pipeline>>

\* the caller scores the list again with one failing result now passed
FlipPassed(n) ==
    /\ pc = "scored"
    /\ "passed" \in DOMAIN issues[n]
    /\ issues[n].passed = FALSE
    /\ issues' = [issues EXCEPT ![n].passed = TRUE]
    /\ previous' = result
    /\ result' = calculate_tiered_score(issues')
    /\ pc' = "flipped"
    /\ UNCHANGED <<grades, pipeline>>

\* the longest list that is scored again in another order
MaxLen == 3

\* the caller scores the list again with two neighbouring results exchanged
Reorder(n) ==
    /\ pc = "scored"
    /\ Len(issues) <= MaxLen
    /\ issues' = [issues EXCEPT ![n] = issues[n + 1], ![n + 1] = issues[n]]
    /\ previous' = result
    /\ result' = calculate_tiered_score(issues')
    /\ pc' = "reordered"
    /\ UNCHANGED <<grades, pipeline>>

\* grade = calculate_grade(final_score)
\* band, color = calculate_visibility_band(final_score)
Grade ==
    /\ pc = "scored"
    /\ grade' = calculate_grade(result.score)
    /\ band' = calculate_visibility_band(result.score)
    /\ pc' = "graded"
    /\ UNCHANGED <<issues, result, previous, score, score_grade, score_band, pipeline>>

\* the caller grades a score of its own, such as a category percentage
GradeScore ==
    /\ pc = "graded"
    /\ score_grade' = calculate_grade(score)
    /\ score_band' = calculate_visibility_band(score)
    /\ pc' = "done"
    /\ UNCHANGED <<issues, result, previous, grade, band, score, pipeline>>

\* the variables of the scoring steps
scoring == <<issues, result, previous, grades>>

\* fetch_result = await fetch_website(request.url)
Fetch ==
    /\ pc = "request"
    /\ fetch_result' = fetch_website(request, TRUE)
    /\ pc' = "fetched"
    /\ UNCHANGED <<scoring, request, response, robots_txt, answers, analysis>>

\* a caller of fetch_website switches the JS rendering off
FetchStatic ==
    /\ pc = "request"
    /\ fetch_result' = fetch_website(request, FALSE)
    /\ pc' = "fetched_static"
    /\ UNCHANGED <<scoring, request, response, robots_txt, answers, analysis>>

\* health_check up to all_results: a fetch error is raised as HTTPException,
\* which the except clauses hand on; otherwise the four groups of checks run
RunChecks ==
    /\ pc = "fetched"
    /\ IF fetch_result.error # NoError
           THEN /\ response' = health_check_except(
                                   HTTPException(400, DetailFailedToFetch \o fetch_result.error))
                /\ pc' = "rejected"
                /\ UNCHANGED issues
           ELSE /\ issues' = all_results(fetch_result)
                /\ pc' = "input"
                /\ UNCHANGED response
    /\ UNCHANGED <<result, previous, grades, request, fetch_result, robots_txt, answers,
                   analysis>>

\* health_check from the count of the passed results to the response
Respond ==
    /\ pc = "graded"
    /\ LET passed == CountPassed(issues)
           failed == Len(issues) - passed
       IN  response' = [status_code |-> 200, score |-> result.score, grade |-> grade,
                        band |-> band[1], checks_passed |-> passed,
                        checks_failed |-> failed,
                        issues |-> SelectSeq(issues, LAMBDA r :
                                       Get(r, "passed", FALSE) # TRUE)]
    /\ pc' = "responded"
    /\ UNCHANGED <<scoring, request, fetch_result, robots_txt, answers, analysis>>

\* issues = run_aeo_crawler_checks(robots_txt)
CrawlerChecks ==
    /\ pc = "robots"
    /\ issues' = run_aeo_crawler_checks(robots_txt)
    /\ pc' = "input"
    /\ UNCHANGED <<result, previous, grades, pipeline>>

\* result = await run_complete_analysis(request, base_url, pdf_service_url)
Analyse ==
    /\ pc = "analysis"
    /\ analysis' = run_complete_analysis(answers)
    /\ pc' = "analysed"
    /\ UNCHANGED <<scoring, request, fetch_result, response, robots_txt, answers>>

Next ==
    \/ Score
    \/ \E n \in 1..Len(issues) : FlipPassed(n)
    \/ \E n \in 1..(Len(issues) - 1) : Reorder(n)
    \/ Grade
    \/ GradeScore
    \/ Fetch
    \/ FetchStatic
    \/ RunChecks
    \/ Respond
    \/ CrawlerChecks
    \/ Analyse

Spec == Init /\ [][Next]_vars

\* every list of at most MaxLen catalog results, in every order
Lists ==
    {[i \in 1..Len(e) |-> Catalog[e[i]]] :
        e \in UNION {[1..n -> 1..Len(Catalog)] : n \in 0..MaxLen}}

\* one request for each outcome of the fetch, one robots.txt and one complete
\* analysis
InitOthers ==
    \/ InitRequest({SitePage(PagePassing),
                    [SitePage(PagePassing) EXCEPT
                         !.static = Answer(NoneHtml, 0, UrlHttps, 120)]})
    \/ InitRobots({None})
    \/ InitAnalysis({[company |-> "ok", health |-> "ok", mentions |-> "ok",
                      report |-> "ok", pdf |-> "None"]})

InitList ==
    \/ /\ issues \in Lists
       /\ pc = "input"
       /\ score = 0 /\ Unscored /\ Idle
       /\ request = NoRequest /\ robots_txt = None /\ answers = NoAnswers
    \/ InitOthers

SpecList == InitList /\ [][Next]_vars

\* the scores handed to calculate_grade and calculate_visibility_band, in
\* tenths: below 0, every threshold and its neighbours, above 100
GradeMargin == 20

GradeInputs == (0 - GradeMargin)..(10 * 100 + GradeMargin)

\* the crawler results of a site that blocks them come first in its report
InitGrade ==
    \/ /\ issues = SubSeq(SiteBlocked, 1, MaxLen)
       /\ pc = "input"
       /\ score \in GradeInputs /\ Unscored /\ Idle
       /\ request = NoRequest /\ robots_txt = None /\ answers = NoAnswers
    \/ InitOthers

SpecGrade == InitGrade /\ [][Next]_vars

(***************************************************************************)
(* Properties.  Scores are counted in tenths: 45.0 is 450.                 *)
(***************************************************************************)
Scored == pc \in {"scored", "flipped", "reordered", "graded", "done", "responded"}

\* the least of a set of numbers
Smallest(S) == CHOOSE v \in S : \A w \in S : Leq(v, w)

\* some result for the check is not passed
Failing(check) ==
    \E n \in 1..Len(issues) :
        Get(issues[n], "check", "None") = check /\ ~Get(issues[n], "passed", FALSE)

\* a robots_meta result that is not passed and whose message mentions noindex
NoindexReported ==
    \E n \in 1..Len(issues) :
        /\ Get(issues[n], "check", "None") = "robots_meta"
        /\ ~Get(issues[n], "passed", FALSE)
        /\ Contains(PatNoindex, Lower(Get(issues[n], "message", <<>>)))

\* an org_schema_completeness result with passed = false whose message
\* contains "No Organization schema found"
NoOrgSchemaReported ==
    \E n \in 1..Len(issues) :
        /\ Get(issues[n], "check", "None") = "org_schema_completeness"
        /\ "passed" \in DOMAIN issues[n] /\ issues[n].passed = FALSE
        /\ Contains(MsgNoOrg, Get(issues[n], "message", <<>>))

\* no check identifier occurs twice
OneResultPerCheck ==
    \A m, n \in 1..Len(issues) :
        Get(issues[m], "check", "None") = Get(issues[n], "check", "None") => m = n

\* C1: the score is the least of the three tier caps and the base score,
\* each evaluated on the same list, rounded to one decimal place.
C1_ScoreIsRoundedMin ==
    Scored =>
        result.score =
            RoundTenths(Smallest({FromInt(evaluate_tier0_critical(issues).cap),
                                  FromInt(evaluate_tier1_essential(issues).cap),
                                  FromInt(evaluate_tier2_important(issues).cap),
                                  calculate_base_score(issues)}))

\* a score set by the base score, below every cap and rounded to a tenth
C1_Witness ==
    /\ pc = "scored"
    /\ result.score % 10 # 0
    /\ result.score < 10 * result.tier_details.tier2.cap
    /\ result.tier_details.tier2.cap < result.tier_details.tier1.cap
    /\ result.tier_details.tier2.cap < result.tier_details.tier0.cap

\* C2: scoring the list again with one failing result flipped to passed
\* never gives a lower score.
C2_Monotonic == pc = "flipped" => result.score >= previous.score

\* C3: scoring a reordering of the list gives the same score and the same
\* tier_details.
C3_OrderIndependent == pc = "reordered" => result = previous

\* C4: with positive integer (or absent) score impacts, the score and the
\* base score lie in [0, 100].
C4_Bounded ==
    Scored =>
        /\ result.score >= 0 /\ result.score <= 1000
        /\ result.tier_details.base_score >= 0
        /\ result.tier_details.base_score <= 1000
        /\ Leq(calculate_base_score(issues), FromInt(100))

\* both bounds are met: a list that earns nothing and a list that earns all
C4_Witness ==
    /\ pc = "flipped"
    /\ previous.tier_details.base_score = 0
    /\ result.tier_details.base_score = 1000

\* C5: when each of the four crawler checks has a failing result, the score
\* is at most 10, whatever else the list holds.
C5_GatePrecedence ==
    (Scored /\ \A c \in ai_crawler_checks : Failing(c)) => result.score <= 100

\* all four crawlers blocked, on a report whose base score is far above 10
C5_Witness ==
    /\ pc = "scored"
    /\ \A c \in ai_crawler_checks : Failing(c)
    /\ result.tier_details.base_score > 500
    /\ result.score = 100

\* C6: a failing org_schema_completeness result that says "No Organization
\* schema found" keeps the score at or below 45, whatever else is supplied.
C6_NoOrgSchemaFloor == (Scored /\ NoOrgSchemaReported) => result.score <= 450

\* C7: the empty list scores 0, with base score 0.
C7_EmptyScoresZero ==
    (Scored /\ issues = <<>>) =>
        result.score = 0 /\ result.tier_details.base_score = 0

C7_Witness == pc = "scored" /\ issues = <<>> /\ result.score = 0

BlockedChecks ==
    {c \in ai_crawler_checks :
        \E n \in 1..Len(issues) :
            /\ issues[n].check = c
            /\ "passed" \in DOMAIN issues[n] /\ issues[n].passed = FALSE}

C10_NoindexCapsAtFive == (Scored /\ NoindexReported) => result.score <= 50

\* some result for the check has a message that, lowercased, lacks the phrase
SomeMessageLacks(check, phrase) ==
    \E n \in 1..Len(issues) :
        /\ Get(issues[n], "check", "") = check
        /\ ~Contains(phrase, Lower(Get(issues[n], "message", <<>>)))

\* no result for the check has a message that, lowercased, contains the phrase
NoMessageHas(check, phrase) ==
    \A n \in 1..Len(issues) :
        Get(issues[n], "check", "") = check
            => ~Contains(phrase, Lower(Get(issues[n], "message", <<>>)))

\* some result for the check is passed
SomePassed(check) ==
    \E n \in 1..Len(issues) :
        Get(issues[n], "check", "") = check /\ Get(issues[n], "passed", FALSE)

\* there is a result for the check
Present(check) ==
    \E n \in 1..Len(issues) : Get(issues[n], "check", "") = check

OrgIncomplete ==
    /\ SomeMessageLacks("org_schema_completeness", PatNoOrg)
    /\ \A n \in 1..Len(issues) :
           (/\ Get(issues[n], "check", "") = "org_schema_completeness"
            /\ ~Contains(PatNoOrg, Lower(Get(issues[n], "message", <<>>))))
               => completeness(Get(issues[n], "message", <<>>)) < 70

\* the number of important issues and of minor issues
ImportantCount ==
    (IF OrgIncomplete THEN 1 ELSE 0)
    + (IF SomePassed("sameas_links") THEN 0 ELSE 1)

MinorCount ==
    (IF SomeMessageLacks("meta_description", PatMissing) THEN 0 ELSE 1)
    + (IF SomePassed("content_word_count") THEN 0 ELSE 1)

OrgResults ==
    {n \in 1..Len(issues) :
        /\ Get(issues[n], "check", "") = "org_schema_completeness"
        /\ ~Contains(PatNoOrg, Lower(Get(issues[n], "message", <<>>)))}

\* the message contains digits followed by "%"
HasPercentage(message) ==
    \E i \in 1..Len(message) :
        /\ IsDigit(message[i])
        /\ \E j \in (i + 1)..Len(message) :
               /\ message[j] = "%"
               /\ \A k \in i..(j - 1) : IsDigit(message[k])

\* the message contains a whole number of at least low followed by "%"
PercentageAtLeast(message, low) ==
    \E i \in 1..Len(message) :
        /\ IsDigit(message[i])
        /\ i = 1 \/ ~IsDigit(message[i - 1])
        /\ \E j \in (i + 1)..Len(message) :
               /\ message[j] = "%"
               /\ \A k \in i..(j - 1) : IsDigit(message[k])
               /\ DigitsToInt(message, i, j - 1) >= low

\* Tier 2 reports the Organization schema as incomplete
IncompleteReported ==
    result.tier_details.tier2.reason \in
        {"Issue: incomplete Organization schema",
         "Issues: incomplete Organization schema, no sameAs links"}

Weight(n) == IF "score_impact" \in DOMAIN issues[n] THEN issues[n].score_impact ELSE 5

\* ten times the share of its weight that the n-th result earns
ShareTenths(n) ==
    IF "passed" \in DOMAIN issues[n] /\ issues[n].passed THEN 10
    ELSE IF "severity" \in DOMAIN issues[n] /\ issues[n].severity = "notice" THEN 7
    ELSE IF "severity" \in DOMAIN issues[n] /\ issues[n].severity = "warning" THEN 3
    ELSE 0

\* the sum of the weights of the first n results
RECURSIVE TotalWeight(_)
TotalWeight(n) == IF n = 0 THEN 0 ELSE TotalWeight(n - 1) + Weight(n)

\* ten times the weight earned by the first n results, as an exact integer
RECURSIVE EarnedTenths(_)
EarnedTenths(n) ==
    IF n = 0 THEN 0 ELSE EarnedTenths(n - 1) + ShareTenths(n) * Weight(n)

\* 2^-20, far above the rounding error of a few float operations on numbers
\* up to 100 and far below the weight of a single result
Tolerance == [i \in 1..NLimbs |-> IF i = NLimbs - 1 THEN 1 ELSE 0]

\* a and b differ by at most Tolerance
Close(a, b) == Leq(a, AddExact(b, Tolerance)) /\ Leq(b, AddExact(a, Tolerance))

\* C14: the base score is 100 * earned / total, where total sums the score
\* impacts and earned takes the whole impact of a passed result, 0.7 of it
\* for a failed 'notice', 0.3 for a failed 'warning' and nothing otherwise;
\* it is 0 when total is 0.  The float value agrees with the exact quotient
\* up to rounding error, and the reported value is within half a tenth of it.
C14_BaseScoreFormula ==
    Scored =>
        LET total  == TotalWeight(Len(issues))
            earned == EarnedTenths(Len(issues))
            base   == calculate_base_score(issues)
        IN  IF total = 0
            THEN base = Zero /\ result.tier_details.base_score = 0
            ELSE /\ Close(MulExact(base, total), FromInt(10 * earned))
                 /\ 2 * result.tier_details.base_score * total <= 200 * earned + total
                 /\ 2 * result.tier_details.base_score * total >= 200 * earned - total

\* a list with passed results and failed results of each severity whose
\* base score is not a whole number
C14_Witness ==
    /\ pc = "scored"
    /\ \A sev \in {"notice", "warning", "error"} :
           \E n \in 1..Len(issues) :
               /\ "passed" \in DOMAIN issues[n] /\ ~issues[n].passed
               /\ issues[n].severity = sev
    /\ \E n \in 1..Len(issues) : "passed" \in DOMAIN issues[n] /\ issues[n].passed
    /\ result.tier_details.base_score % 10 # 0

\* C15: calculate_tiered_score never raises, also on results with malformed
\* or missing fields.
C15_NeverRaises == pc # "raised"

\* the tier that C16 names when the caps are compared with the given score
\* plus 1, the score in tenths
FirstTierWithin(returned) ==
    IF 10 * result.tier_details.tier0.cap <= returned + 10 THEN "tier0"
    ELSE IF 10 * result.tier_details.tier1.cap <= returned + 10 THEN "tier1"
    ELSE IF 10 * result.tier_details.tier2.cap <= returned + 10 THEN "tier2"
    ELSE "base"

\* limiting_reason is the reason of the limiting tier
ReasonOfLimitingTier ==
    result.tier_details.limiting_reason =
        IF result.tier_details.limiting_tier = "base" THEN "Check performance"
        ELSE result.tier_details[result.tier_details.limiting_tier].reason

\* C16 as stated: limiting_tier is the first of tier0, tier1, tier2 whose cap
\* is at most the returned (rounded) score plus 1, else 'base', and
\* limiting_reason is that tier's reason or "Check performance".
C16_LimitingTierOfRoundedScore ==
    Scored =>
        /\ result.tier_details.limiting_tier = FirstTierWithin(result.score)
        /\ ReasonOfLimitingTier

\* min(tier0_cap, tier1_cap, tier2_cap, base_score) before it is rounded
UnroundedScore ==
    Smallest({FromInt(result.tier_details.tier0.cap),
              FromInt(result.tier_details.tier1.cap),
              FromInt(result.tier_details.tier2.cap),
              calculate_base_score(issues)})

\* C16 as amended: limiting_tier is the first of tier0, tier1, tier2 whose
\* cap is at most the unrounded minimum plus 1, else 'base', and
\* limiting_reason is that tier's reason or "Check performance".
C16_LimitingTier ==
    Scored =>
        LET within(t) == Leq(FromInt(result.tier_details[t].cap),
                             AddExact(UnroundedScore, FromInt(1)))
        IN  /\ result.tier_details.limiting_tier =
                   IF within("tier0") THEN "tier0"
                   ELSE IF within("tier1") THEN "tier1"
                   ELSE IF within("tier2") THEN "tier2"
                   ELSE "base"
            /\ ReasonOfLimitingTier

\* a base score just below cap - 1 that rounds to cap - 1: the limiting tier
\* is 'base' although a cap is within 1 of the returned score
C16_Witness ==
    /\ pc = "scored"
    /\ result.tier_details.limiting_tier = "base"
    /\ FirstTierWithin(result.score) # "base"

\* the smallest of the three tier caps
SmallestCap ==
    CHOOSE c \in {result.tier_details[t].cap : t \in {"tier0", "tier1", "tier2"}} :
        \A t \in {"tier0", "tier1", "tier2"} : c <= result.tier_details[t].cap

\* the checks of a full report
ReportChecks == {SitePassing[n].check : n \in 1..Len(SitePassing)}

\* every check of a full report has a result, and every result for a check
\* outside S is passed
AllOthersPass(S) ==
    /\ \A c \in ReportChecks : Present(c)
    /\ \A n \in 1..Len(issues) :
           Get(issues[n], "check", "") \notin S => Get(issues[n], "passed", FALSE)

\* every result for the four crawler checks is not passed
AllCrawlersBlocked ==
    \A n \in 1..Len(issues) :
        Get(issues[n], "check", "") \in ai_crawler_checks
            => ~Get(issues[n], "passed", FALSE)

\* every org_schema_completeness result says "No Organization schema found"
OrgSchemaAbsent ==
    \A n \in 1..Len(issues) :
        Get(issues[n], "check", "") = "org_schema_completeness"
            => Contains(MsgNoOrg, Get(issues[n], "message", <<>>))

\* C17: when the smallest tier cap is below 100 and not above base_score,
\* limiting_tier names a tier that holds the smallest cap; it is 'tier0' when
\* all four crawler checks fail and every other check passes, and 'tier1'
\* when org_schema_completeness reports "No Organization schema found" and
\* every other check passes.
C17_GatingTierReported ==
    Scored =>
        /\ (SmallestCap < 100 /\ 10 * SmallestCap <= result.tier_details.base_score)
               => /\ result.tier_details.limiting_tier \in {"tier0", "tier1", "tier2"}
                  /\ result.tier_details[result.tier_details.limiting_tier].cap
                         = SmallestCap
        /\ (AllCrawlersBlocked /\ AllOthersPass(ai_crawler_checks))
               => result.tier_details.limiting_tier = "tier0"
        /\ (OrgSchemaAbsent /\ AllOthersPass({"org_schema_completeness"}))
               => result.tier_details.limiting_tier = "tier1"

\* no Organization schema on an otherwise passing report: Tier 1 gates
C17_Witness ==
    /\ pc = "scored"
    /\ OrgSchemaAbsent /\ AllOthersPass({"org_schema_completeness"})
    /\ result.score = 450
    /\ result.tier_details.base_score > 450
    /\ result.tier_details.limiting_tier = "tier1"

\* all four crawlers blocked on an otherwise passing report: Tier 0 gates
C17_WitnessTier0 ==
    /\ pc = "scored"
    /\ AllCrawlersBlocked /\ AllOthersPass(ai_crawler_checks)
    /\ result.score = 100
    /\ result.tier_details.limiting_tier = "tier0"

\* the checks that the all-pass scenario names
ScenarioChecks ==
    ai_crawler_checks \cup
        {"https", "title_tag", "meta_description", "content_word_count",
         "sameas_links", "org_schema_completeness"}

\* every result passed with a score impact between 4 and 15, the scenario's
\* checks all present, and an Organization schema message stating >= 70%
AllPassScenario ==
    /\ \A n \in 1..Len(issues) :
           /\ "passed" \in DOMAIN issues[n] /\ issues[n].passed
           /\ "score_impact" \in DOMAIN issues[n] /\ issues[n].score_impact \in 4..15
    /\ \A c \in ScenarioChecks : Present(c)
    /\ \E n \in 1..Len(issues) :
           /\ issues[n].check = "org_schema_completeness"
           /\ PercentageAtLeast(issues[n].message, 70)

\* what the all-pass scenario expects
AllPassOutcome ==
    /\ \A t \in {"tier0", "tier1", "tier2"} : result.tier_details[t].cap = 100
    /\ result.tier_details.base_score = 1000
    /\ result.score = 1000
    /\ pc \in {"graded", "done"} => grade = "A+" /\ band[1] = "Excellent"

\* C18 as stated: in the all-pass scenario the three tier caps are 100,
\* base_score and the final score are 100.0, the grade is 'A+' and the band
\* 'Excellent'.
C18_AllPassScenario == (Scored /\ AllPassScenario) => AllPassOutcome

\* the messages agree with the passed flags: a title_tag message without
\* "missing title", a meta_description message without "missing", and the
\* Organization schema message that states >= 70% is without "no
\* organization schema"
MessagesAgree ==
    /\ SomeMessageLacks("title_tag", PatMissingTitle)
    /\ SomeMessageLacks("meta_description", PatMissing)
    /\ \E n \in OrgResults : PercentageAtLeast(issues[n].message, 70)

\* C18 as amended: in the all-pass scenario, when moreover the messages
\* agree with the passed flags, the three tier caps are 100, base_score and
\* the final score are 100.0, the grade is 'A+' and the band 'Excellent'.
C18_AllPassAgreeing ==
    (Scored /\ AllPassScenario /\ MessagesAgree) => AllPassOutcome

\* the all-pass report, scored and graded
C18_Witness ==
    /\ pc = "graded"
    /\ AllPassScenario /\ MessagesAgree
    /\ result.score = 1000
    /\ grade = "A+" /\ band = <<"Excellent", "#22c55e">>

\* the ladders of the claim: threshold and value, from the top
GradeLadder == <<<<90, "A+">>, <<80, "A">>, <<65, "B">>, <<45, "C">>, <<25, "D">>>>

BandLadder ==
    <<<<80, <<"Excellent", "#22c55e">>>>, <<65, <<"Strong", "#84cc16">>>>,
      <<45, <<"Moderate", "#eab308">>>>, <<25, <<"Weak", "#f97316">>>>>>

\* the rung of the ladder that a score in tenths reaches: the first whose
\* threshold is at most the score, and one past the last rung if there is none
Rung(ladder, tenths) ==
    LET reached == {i \in 1..Len(ladder) : tenths >= 10 * ladder[i][1]}
    IN  IF reached = {} THEN Len(ladder) + 1
        ELSE CHOOSE i \in reached : \A k \in reached : i <= k

\* the value on that rung
OnLadder(ladder, lowest, tenths) ==
    IF Rung(ladder, tenths) > Len(ladder) THEN lowest
    ELSE ladder[Rung(ladder, tenths)][2]

\* the rung that holds a value
RungOf(ladder, value) ==
    IF \E i \in 1..Len(ladder) : ladder[i][2] = value
    THEN CHOOSE i \in 1..Len(ladder) : ladder[i][2] = value
    ELSE Len(ladder) + 1

\* C19: calculate_grade and calculate_visibility_band follow their ladders
\* (a boundary value is on the higher rung), scores below 0 get F and
\* Critical, scores above 100 get A+ and Excellent, and neither function
\* decreases when the score grows.
C19_Ladders ==
    /\ pc \in {"graded", "done"} =>
           /\ grade = OnLadder(GradeLadder, "F", result.score)
           /\ band = OnLadder(BandLadder, <<"Critical", "#ef4444">>, result.score)
    /\ pc = "done" =>
           /\ score_grade = OnLadder(GradeLadder, "F", score)
           /\ score_band = OnLadder(BandLadder, <<"Critical", "#ef4444">>, score)
           /\ score < 0 => score_grade = "F" /\ score_band[1] = "Critical"
           /\ score > 1000 => score_grade = "A+" /\ score_band[1] = "Excellent"
           /\ \A lower \in GradeInputs :
                  lower <= score =>
                      /\ RungOf(GradeLadder, calculate_grade(lower))
                             >= RungOf(GradeLadder, score_grade)
                      /\ RungOf(BandLadder, calculate_visibility_band(lower))
                             >= RungOf(BandLadder, score_band)

\* the boundary 45.0 is graded C and Moderate
C19_Witness ==
    /\ pc = "done"
    /\ score = 450
    /\ score_grade = "C"
    /\ score_band = <<"Moderate", "#eab308">>

OrgSchemaIncomplete ==
    /\ Present("org_schema_completeness")
    /\ \A n \in 1..Len(issues) :
           Get(issues[n], "check", "") = "org_schema_completeness" =>
               /\ n \in OrgResults
               /\ HasPercentage(issues[n].message)
               /\ ~PercentageAtLeast(issues[n].message, 70)

\* C21: when the Organization schema exists but is incomplete, the score is
\* at most 80.
C21_IncompleteSchemaCapsAt80 == (Scored /\ OrgSchemaIncomplete) => result.score <= 800

\* C26: a tier named by limiting_tier failed and has a cap below 100, and a
\* report on which all three tiers pass is attributed to 'base'.
C26_LimitingTierFailed ==
    Scored =>
        LET details == result.tier_details
            tiers   == {"tier0", "tier1", "tier2"}
        IN  /\ details.limiting_tier \in tiers =>
                   /\ ~details[details.limiting_tier].passed
                   /\ details[details.limiting_tier].cap < 100
            /\ (\A t \in tiers : details[t].passed) => details.limiting_tier = "base"

\* the failing results of the crawler checks, as a set of check identifiers
BlockedIdentifiers ==
    {Get(issues[n], "check", "None") : n \in {m \in 1..Len(issues) :
        /\ Get(issues[m], "check", "None") \in ai_crawler_checks
        /\ ~Get(issues[m], "passed", FALSE)}}

\* C27: the Tier 0 cap is 10 only if each of the four crawler checks has a
\* failing result, and 25 only if exactly three distinct ones have.
C27_Tier0CountsDistinctCrawlers ==
    Scored =>
        /\ result.tier_details.tier0.cap = 10 => BlockedIdentifiers = ai_crawler_checks
        /\ result.tier_details.tier0.cap = 25 => Cardinality(BlockedIdentifiers) = 3

\* the list of results came from the checks of a fetched page and was not
\* changed since
FromHealthCheck ==
    /\ fetch_result # NoFetch
    /\ pc \in {"input", "scored", "graded", "done", "responded"}

TechnicalChecks ==
    {"title_tag", "meta_description", "h1_tag", "heading_structure", "image_alt_text",
     "mobile_viewport", "structured_data_presence", "https", "canonical_tag",
     "robots_meta", "content_word_count", "internal_linking", "language_tag",
     "sitemap_xml", "response_time", "hreflang_tags"}

StructuredDataChecks ==
    {"org_schema_completeness", "faq_schema", "content_schema", "sameas_links",
     "content_freshness", "jsonld_validation"}

AuthorityChecks == {"about_page", "contact_info", "social_proof_links"}

\* the results for the checks of a group are the results from..to of the list,
\* one for each check of the group
GroupAt(from, to, group) ==
    /\ to <= Len(issues)
    /\ to - from + 1 = Cardinality(group)
    /\ \A c \in group : \E n \in from..to : issues[n].check = c

\* C22: every successfully fetched page gets exactly 29 results, 16 technical,
\* 6 structured data, 4 crawler and 3 authority ones, one per check, and the
\* response counts 29 checks.
C22_Exactly29Checks ==
    /\ FromHealthCheck =>
           /\ Len(issues) = 29
           /\ GroupAt(1, 16, TechnicalChecks)
           /\ GroupAt(17, 22, StructuredDataChecks)
           /\ GroupAt(23, 26, ai_crawler_checks)
           /\ GroupAt(27, 29, AuthorityChecks)
    /\ (FromHealthCheck /\ pc = "responded") =>
           response.checks_passed + response.checks_failed = 29

\* C23: when fetch_website returns an error the endpoint answers 400 with a
\* detail that contains "Failed to fetch"; no check runs and nothing is scored.
C23_FailedFetchRejected ==
    /\ (fetch_result # NoFetch /\ fetch_result.error # NoError) =>
           /\ pc \in {"fetched", "fetched_static", "rejected"}
           /\ issues = <<>>
           /\ result = NoResult /\ grade = NoGrade
           /\ pc = "rejected" =>
                  /\ response.raised = "HTTPException"
                  /\ response.status_code = 400
                  /\ Contains(PatFailedToFetch, response.detail)
    /\ pc = "rejected" => fetch_result.error # NoError

\* a site behind a Cloudflare challenge that Playwright does not pass either
C23_Witness ==
    /\ pc = "rejected"
    /\ fetch_result.error = ErrorCloudflare
    /\ fetch_result.html = NoneHtml
    /\ response.status_code = 400
    /\ issues = <<>>

\* a site that does not answer
C23_WitnessNoAnswer ==
    /\ pc = "rejected"
    /\ request.static.html = NoneHtml
    /\ fetch_result.error = ErrorFailedToFetch \o UrlHttps
    /\ response.status_code = 400

\* C24: when the static fetch returns a Cloudflare challenge page,
\* fetch_website returns either rendered HTML that is no challenge page or an
\* error without HTML, whether or not JS rendering is enabled.
C24_ChallengeNeverAnalysed ==
    (pc \in {"fetched", "fetched_static"} /\ is_cloudflare_challenge(request.static.html)) =>
        \/ /\ fetch_result.js_rendered
           /\ Truthy(fetch_result.html)
           /\ ~is_cloudflare_challenge(fetch_result.html)
           /\ fetch_result.error = NoError
        \/ /\ fetch_result.html = NoneHtml
           /\ fetch_result.error # NoError

\* the crawler rule that the parsed robots.txt puts in effect: the own group
\* of the crawler if it has one, else the group of '*'
BlockedBy(rules, crawler_name) ==
    \/ crawler_name \in DOMAIN rules /\ rules[crawler_name].disallow_all
    \/ /\ crawler_name \notin DOMAIN rules
       /\ Wildcard \in DOMAIN rules
       /\ rules[Wildcard].disallow_all

\* the results are those of the four crawler checks for the text: a check
\* fails iff one of its crawlers is blocked
CrawlerResults(results, text) ==
    LET rules == parse_robots_txt(text)
        failed(check) == \E n \in 1..Len(results) :
                             results[n].check = check /\ ~results[n].passed
    IN  /\ Len(results) = Cardinality(ai_crawler_checks)
        /\ failed("gptbot_access") <=> BlockedBy(rules, Gptbot)
        /\ failed("claude_access") <=>
               \E c \in {Claudebot, ClaudeWeb, AnthropicAi} : BlockedBy(rules, c)
        /\ failed("perplexitybot_access") <=> BlockedBy(rules, Perplexitybot)
        /\ failed("ccbot_access") <=> BlockedBy(rules, Ccbot)
        /\ (text = None \/ text = EmptyText \/ DOMAIN rules = {}) =>
               \A n \in 1..Len(results) : results[n].passed

DisallowEverything == <<LineAgentAll, LineDisallowAll>>

\* the crawler results of the list, which was not changed since the checks ran
CrawlerPart == SelectSeq(issues, LAMBDA r : r.check \in ai_crawler_checks)

\* C25: a crawler is blocked iff its own group has disallow-all in effect, or
\* it has no group and the group of '*' has; without robots.txt or without a
\* matching group it is allowed.  A robots.txt of 'User-agent: *' and
\* 'Disallow: /' fails all four crawler checks and the score is at most 10;
\* a missing robots.txt passes all four.
C25_CrawlerPrecedence ==
    /\ [][pc = "robots" => CrawlerResults(issues', robots_txt)]_vars
    /\ [](FromHealthCheck =>
             /\ CrawlerResults(CrawlerPart, OrEmpty(fetch_result.robots_txt))
             /\ fetch_result.robots_txt = None =>
                    \A n \in 1..Len(CrawlerPart) : CrawlerPart[n].passed)
    /\ []((FromHealthCheck /\ Scored /\ fetch_result.robots_txt = DisallowEverything) =>
             /\ \A n \in 1..Len(CrawlerPart) : ~CrawlerPart[n].passed
             /\ Len(CrawlerPart) = Cardinality(ai_crawler_checks)
             /\ result.score <= 10 * 10)
    /\ []((pc = "scored" /\ robots_txt = DisallowEverything) =>
             /\ \A n \in 1..Len(issues) : ~issues[n].passed
             /\ result.score <= 10 * 10)

\* '*' is blocked and GPTBot has a group of its own without rules: GPTBot is
\* allowed, the three other checks fail
C25_Witness ==
    /\ pc = "scored"
    /\ robots_txt = <<LineAgentAll, LineDisallowAll, LineAgentGptbot>>
    /\ issues[1].check = "gptbot_access" /\ issues[1].passed
    /\ \A n \in 2..Len(issues) : ~issues[n].passed
    /\ result.tier_details.tier0.cap = 25

\* the endpoint scores a site whose robots.txt disallows everything for '*'
C25_WitnessDisallowEverything ==
    /\ pc = "responded"
    /\ FromHealthCheck
    /\ fetch_result.robots_txt = DisallowEverything
    /\ response.score = 10 * 10
    /\ response.checks_failed = Cardinality(ai_crawler_checks)

\* C28: when the Organization schema check passes, Tier 2 does not list an
\* incomplete Organization schema, and a page on which all 29 checks pass
\* scores 100.
C28_CheckAndTierAgree ==
    (FromHealthCheck /\ Scored) =>
        LET important == important_issues(issues)
        IN  /\ (\E n \in 1..Len(issues) :
                    issues[n].check = "org_schema_completeness" /\ issues[n].passed)
               => \A k \in 1..Len(important) :
                      important[k] # "incomplete Organization schema"
            /\ (Len(issues) = 29 /\ \A n \in 1..Len(issues) : issues[n].passed)
               => result.score = 10 * 100

\* a line that the parser skips, and a line that names a user-agent
Skipped(raw) == Strip(raw) = <<>> \/ Head(Strip(raw)) = "#"

NamesAgent(raw) == ~Skipped(raw) /\ StartsWith(PrefixUserAgent, Lower(Strip(raw)))

AgentOf(raw) == Lower(Strip(AfterColon(Strip(raw))))

\* line i is 'Disallow: /' or 'Allow: /'
RuleForAll(raw, prefix) ==
    /\ ~Skipped(raw)
    /\ StartsWith(prefix, Lower(Strip(raw)))
    /\ Strip(AfterColon(Strip(raw))) \in {PathRoot, PathRootStar}

\* the user-agents named in the run of consecutive User-agent lines that
\* precedes line i
Group(text, i) ==
    LET before == {j \in 1..(i - 1) : NamesAgent(text[j])}
        last   == CHOOSE j \in before : \A k \in before : k <= j
    IN  IF before = {} THEN {}
        ELSE {AgentOf(text[j]) : j \in {k \in before :
                 \A m \in k..last : NamesAgent(text[m]) \/ Skipped(text[m])}}

\* the agents that the text names
Named(text) == {AgentOf(text[j]) : j \in {k \in 1..Len(text) : NamesAgent(text[k])}}

\* the last 'Disallow: /' or 'Allow: /' line of the groups of the agent is a
\* 'Disallow: /'
GroupDisallowAll(text, agent) ==
    LET deciding == {i \in 1..Len(text) :
                        /\ RuleForAll(text[i], PrefixDisallow) \/ RuleForAll(text[i], PrefixAllow)
                        /\ agent \in Group(text, i)}
        last     == CHOOSE i \in deciding : \A k \in deciding : k <= i
    IN  deciding # {} /\ RuleForAll(text[last], PrefixDisallow)

GroupBlocked(text, crawler_name) ==
    IF crawler_name \in Named(text) THEN GroupDisallowAll(text, crawler_name)
    ELSE Wildcard \in Named(text) /\ GroupDisallowAll(text, Wildcard)

\* C29: a 'Disallow: /' or 'Allow: /' line applies to every user-agent of the
\* run of consecutive User-agent lines before it, the last such line of an
\* agent decides disallow_all, and so 'User-agent: GPTBot', 'User-agent:
\* CCBot', 'Disallow: /' blocks both GPTBot and CCBot.
C29_GroupSemantics ==
    [][pc = "robots" =>
          LET rules == parse_robots_txt(robots_txt)
          IN  /\ DOMAIN rules = Named(robots_txt)
              /\ \A agent \in DOMAIN rules :
                     rules[agent].disallow_all = GroupDisallowAll(robots_txt, agent)
              /\ issues'[1].passed = ~GroupBlocked(robots_txt, Gptbot)
              /\ issues'[4].passed = ~GroupBlocked(robots_txt, Ccbot)]_vars

\* the steps of the complete analysis that carry an 'error' key
WithErrorKey ==
    {step \in {"company_analysis", "health_check", "mentions_check"} :
        "error" \in DOMAIN analysis[step]}

MentionsRequested == \E n \in 1..Len(analysis.posts) : analysis.posts[n] = "/mentions/check"

\* C30: success is true only when no step recorded an error; the mentions
\* check is requested only after the company analysis returned without
\* error and is otherwise skipped with an error recorded.
C30_SuccessMeansNoError ==
    pc = "analysed" =>
        /\ analysis.success = "True" => (analysis.errors = <<>> /\ WithErrorKey = {})
        /\ MentionsRequested =>
               /\ answers.company = "ok"
               /\ analysis.posts[1] = "/company/analyze"
        /\ ~MentionsRequested =>
               /\ "error" \in DOMAIN analysis.mentions_check
               /\ analysis.errors # <<>>
====
